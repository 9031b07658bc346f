-------------------------- MODULE OrchestratorProofs --------------------------
(***************************************************************************)
(* Proofs about Orchestrator, for any number of cases, requests, owners    *)
(* and instances, with any inputs, whether requests on a case overlap or   *)
(* not and whatever fails.  First what each step of a request may count    *)
(* on; then what follows for the things outside the store: every fee in a  *)
(* settlement ledger is backed by a message that was sent and by savings   *)
(* that were confirmed, and is part of those savings; a transaction hash   *)
(* on a stored receipt is of a transaction that anchored that very         *)
(* receipt, although the transaction runs on its own and the wait for it   *)
(* may fail.                                                               *)
(***************************************************************************)
EXTENDS OrchestratorInvariants, TLAPS

-----------------------------------------------------------------------------
(* The artifacts that requests make are of their types.                    *)

\* A proposal is one.
LEMMA ProposedType ==
  ASSUME TypeOK, NEW r \in Request, call[r] \in Arguments, call[r].input \in Input
  PROVE  ProposedBy(r) \in Proposal
<1>1. Coalesce(call[r].input.desired, call[r].input.details) \in Nat \cup {Null}
  BY InputAssumption DEF Coalesce
<1> QED
  BY <1>1 DEF ProposedBy, Proposal, Message

\* The evidence of an analysis is an Execution.
LEMMA AnalysisType ==
  ASSUME TypeOK, NEW r \in Request, call[r] \in Arguments, call[r].input \in Input,
         analysis[r] # Null
  PROVE  AnalysisBy(r) \in Execution
<1>1. ProposedBy(r).exactMessage \in Message
  BY ProposedType DEF Proposal
<1> QED
  BY <1>1 DEF AnalysisBy, Execution, Commit, Hash

\* An approval is one.
LEMMA ApprovalType ==
  ASSUME TypeOK, NEW r \in Request, call[r] \in Arguments, call[r].proposalId \in Request,
         current[r].proposal \in Proposal
  PROVE  ApprovalBy(r) \in Approval
BY DEF ApprovalBy, Approval, Commit, Hash, Arguments

\* What the simulator answers is reported as an outcome; what is verified of
\* its savings was confirmed by the counterparty and is what it claims.
LEMMA SimulatedOutcome ==
  ASSUME NEW input \in Input
  PROVE  LET o == OutcomeOf(SandboxResult(input))
         IN /\ o \in Outcome
            /\ o.verifiedSavingsCents # Null /\ o.verifiedSavingsCents > 0 =>
                 /\ o.counterpartyConfirmation
                 /\ o.verifiedSavingsCents = o.claimedSavingsCents
<1> DEFINE requested == Coalesce(input.details, input.desired)
           result == SandboxResult(input)
<1>1. requested \in Nat \cup {Null}
  BY InputAssumption DEF Coalesce
<1>2. Coalesce(requested, 999) \in Nat
  BY <1>1 DEF Coalesce
<1>3. /\ result.outcomeType \in OutcomeType
      /\ result.counterpartyConfirmation \in BOOLEAN
      /\ result.claimedSavingsCents \in Nat
  BY <1>2 DEF SandboxResult, OutcomeType
<1> QED
  BY <1>3 DEF OutcomeOf, VerifyClaimedSavings, Outcome

\* A fee and what it leaves to the user add up to the savings, and neither is
\* negative.
LEMMA FeeParts ==
  ASSUME NEW v \in Nat
  PROVE  LET fee == ComputeFee(v)
         IN /\ fee \in Fee
            /\ fee.verifiedSavingsCents = v
            /\ fee.feeCents \in 0 .. v
            /\ fee.netToUserCents = v - fee.feeCents
<1>1. FeeCents(v) \in Int /\ 0 <= FeeCents(v) /\ FeeCents(v) <= v
  BY DEF FeeCents, DEFAULT_FEE_BPS
<1> QED
  BY <1>1 DEF ComputeFee, Fee

\* The receipt of a case whose artifacts are there is a Receipt.
LEMMA ReceiptType ==
  ASSUME NEW id \in Request, NEW c \in Case, NEW record \in CaseRecord,
         record.proposal \in Proposal, record.approval \in Approval,
         record.execution \in Execution, record.outcome \in Outcome
  PROVE  BuildReceipt(id, c, record, "sandbox") \in Receipt
<1> DEFINE forCase == CaseCommitment(c, record.input)
           forAction == ActionCommitment(forCase, record.proposal, record.approval)
           forExecution == ExecutionCommitment(forAction, record.execution)
           forOutcome == OutcomeCommitment(forExecution, record.outcome)
           status == DeriveStatus(record.outcome)
           forReceipt == ReceiptCommitment(forOutcome, id, status)
<1>0. record.input.account \in Account
  BY InputAssumption DEF CaseRecord
<1>1. forCase \in CaseHash
  BY <1>0 DEF CaseCommitment, CaseHash, Commit, Hash
<1>2. forAction \in ActionHash
  BY <1>1 DEF ActionCommitment, ActionHash, Chain, Commit, ChainHash, Hash, Proposal, Approval
<1>3. forExecution \in ExecutionHash
  BY <1>2 DEF ExecutionCommitment, ExecutionHash, Chain, Commit, ChainHash, Hash, Execution
<1>4. forOutcome \in OutcomeHash
  BY <1>3 DEF OutcomeCommitment, OutcomeHash, Chain, Commit, ChainHash, Hash, Outcome
<1>5. status \in Status
  BY DEF DeriveStatus, Status
<1>6. forReceipt \in ReceiptHash
  BY <1>4, <1>5 DEF ReceiptCommitment, ReceiptHash, Chain, Commit, ChainHash, Hash
<1> HIDE DEF forCase, forAction, forExecution, forOutcome, status, forReceipt
<1>7. BuildReceipt(id, c, record, "sandbox") =
        [receiptId |-> id, caseId |-> c, status |-> status, environment |-> "sandbox",
         claimedSavingsCents |-> record.outcome.claimedSavingsCents,
         verifiedSavingsCents |-> record.outcome.verifiedSavingsCents,
         teeAttested |-> record.execution.teeAttested,
         commitments |-> [case |-> forCase, action |-> forAction,
                          execution |-> forExecution, outcome |-> forOutcome,
                          receipt |-> forReceipt],
         approvedAt |-> record.approval.approvedAt,
         chainTxHash |-> Null, storageRootHash |-> Null]
  BY DEF BuildReceipt, forCase, forAction, forExecution, forOutcome, status, forReceipt
<1> QED
  BY <1>1, <1>2, <1>3, <1>4, <1>5, <1>6, <1>7
     DEF Receipt, Commitments, Environment, Outcome, Execution, Approval

-----------------------------------------------------------------------------
(* Transitions.                                                            *)

\* applyTransition ends in a state that the table names.
LEMMA TransitionTarget ==
  ASSUME NEW s \in CaseState, NEW e, Legal(s, e)
  PROVE  /\ ApplyTransition(s, e) \in CaseState
         /\ <<s, e, ApplyTransition(s, e)>> \in Transitions
<1>1. \E to \in CaseState : <<s, e, to>> \in Transitions
  BY DEF Legal, Transitions, Entries, CaseState
<1> QED
  BY <1>1 DEF ApplyTransition

\* The table, for the events that the Orchestrator makes transitions with.
LEMMA TransitionTable ==
  ASSUME NEW s \in CaseState, NEW e, Legal(s, e)
  PROVE  /\ e = "SUBMIT" => s = "DRAFT" /\ ApplyTransition(s, e) = "SUBMITTED"
         /\ e = "BEGIN_ANALYSIS" => s = "SUBMITTED" /\ ApplyTransition(s, e) = "ANALYZING"
         /\ e = "PROPOSE_ACTION" => s = "ANALYZING" /\ ApplyTransition(s, e) = "ACTION_PROPOSED"
         /\ e = "REQUEST_APPROVAL" =>
              s = "ACTION_PROPOSED" /\ ApplyTransition(s, e) = "AWAITING_APPROVAL"
         /\ e = "APPROVE" => s = "AWAITING_APPROVAL" /\ ApplyTransition(s, e) = "APPROVED"
         /\ e = "REJECT" => s = "AWAITING_APPROVAL" /\ ApplyTransition(s, e) = "REJECTED"
         /\ e = "BEGIN_EXECUTION" => s = "APPROVED" /\ ApplyTransition(s, e) = "EXECUTING"
         /\ e = "EXECUTION_SUCCEEDED" =>
              s = "EXECUTING" /\ ApplyTransition(s, e) = "OUTCOME_PENDING"
         /\ e = "EXECUTION_FAILED" =>
              s \in {"ANALYZING", "EXECUTING"} /\ ApplyTransition(s, e) = "EXECUTION_FAILED"
         /\ e = "OUTCOME_CONFIRMED" =>
              s = "OUTCOME_PENDING" /\ ApplyTransition(s, e) = "VERIFIED_SUCCESS"
BY TransitionTarget DEF Transitions, Entries

\* What transition saves, field by field.
LEMMA PatchedFields ==
  ASSUME Inv, NEW r \in Request, pc[r] = "save"
  PROVE  LET record == Patched(r)
         IN /\ record \in CaseRecord
            /\ record.state = ApplyTransition(read[r].state, event[r])
            /\ record.ownerId = read[r].ownerId /\ record.input = read[r].input
            /\ record.proposal = IF event[r] = "PROPOSE_ACTION" THEN ProposedBy(r)
                                 ELSE read[r].proposal
            /\ record.approval = IF event[r] = "APPROVE" THEN ApprovalBy(r)
                                 ELSE read[r].approval
            /\ event[r] = "PROPOSE_ACTION" => record.execution = AnalysisBy(r)
            /\ event[r] = "EXECUTION_FAILED" /\ outcome[r] = Null /\ read[r].execution # Null =>
                 record.execution # Null /\ ~record.execution.succeeded
            /\ (event[r] # "PROPOSE_ACTION" => (record.execution = Null <=> read[r].execution = Null))
            /\ record.outcome =
                 IF event[r] \in {"EXECUTION_SUCCEEDED", "EXECUTION_FAILED"} /\ outcome[r] # Null
                 THEN outcome[r] ELSE read[r].outcome
            /\ record.receipt = IF event[r] = "OUTCOME_CONFIRMED" THEN receipt[r]
                                ELSE read[r].receipt
<1> DEFINE record == read[r]
           e == event[r]
           to == ApplyTransition(record.state, e)
<1>1. RequestOK(r) /\ pc[r] # "idle" /\ call[r] \in Arguments
  BY DEF Inv, RequestOK, CallOK, Called
<1>2. record \in CaseRecord /\ Prepared(r) /\ Legal(record.state, e)
  BY <1>1 DEF Inv, TypeOK, RequestOK, ReadOK, StepOK
<1>3. to \in CaseState
  BY <1>2, TransitionTarget DEF CaseRecord
<1>4. CASE e = "PROPOSE_ACTION"
  <2>1. call[r].input \in Input /\ analysis[r] # Null
    BY <1>1, <1>2, <1>4 DEF Prepared, SubmitEvents, RequestOK, CallOK, Called
  <2>2. ProposedBy(r) \in Proposal /\ AnalysisBy(r) \in Execution
    BY <2>1, <1>1, ProposedType, AnalysisType DEF Inv
  <2>3. Patched(r) = [record EXCEPT !.proposal = ProposedBy(r), !.execution = AnalysisBy(r),
                                    !.degraded = analysis[r] # "attested", !.state = to]
    BY <1>2, <1>4 DEF Patched, Patch, CaseRecord
  <2> QED
    BY <2>2, <2>3, <1>2, <1>3, <1>4 DEF CaseRecord
<1>5. CASE e = "APPROVE"
  <2>1. /\ call[r].proposalId \in Request
        /\ current[r] # Null /\ current[r] \in CaseRecord
        /\ current[r].proposal = store[call[r].case].proposal
        /\ store[call[r].case].proposal # Null
    BY <1>1, <1>2, <1>5
       DEF Inv, TypeOK, Prepared, ApproveEvents, RequestOK, CallOK, ApprovalOK, Called
  <2>2. ApprovalBy(r) \in Approval
    BY <2>1, <1>1, ApprovalType DEF Inv, CaseRecord
  <2>3. Patched(r) = [record EXCEPT !.approval = ApprovalBy(r), !.state = to]
    BY <1>2, <1>5 DEF Patched, Patch, CaseRecord
  <2> QED
    BY <2>2, <2>3, <1>2, <1>3, <1>5 DEF CaseRecord
<1>6. CASE e \in {"EXECUTION_SUCCEEDED", "EXECUTION_FAILED"} /\ outcome[r] # Null
  <2>1. outcome[r] \in Outcome
    BY <1>6 DEF Inv, TypeOK
  <2>2. Patched(r) = [record EXCEPT !.outcome = outcome[r], !.state = to]
    BY <1>2, <1>6 DEF Patched, Patch, CaseRecord
  <2> QED
    BY <2>1, <2>2, <1>2, <1>3, <1>6 DEF CaseRecord
<1>7. CASE e = "EXECUTION_FAILED" /\ outcome[r] = Null
  <2> DEFINE execution == IF record.execution = Null THEN Null
                          ELSE [record.execution EXCEPT !.succeeded = FALSE]
  <2>1. record.execution # Null => execution \in Execution /\ ~execution.succeeded
    BY <1>2 DEF CaseRecord, Execution
  <2>2. Patched(r) = [record EXCEPT !.execution = execution, !.state = to]
    BY <1>2, <1>7 DEF Patched, Patch, CaseRecord
  <2> HIDE DEF execution
  <2>3. execution \in Execution \cup {Null}
    BY <2>1 DEF execution
  <2>4. execution = Null <=> record.execution = Null
    BY <2>1, NullAssumption DEF execution
  <2> QED
    BY <2>1, <2>2, <2>3, <2>4, <1>2, <1>3, <1>7 DEF CaseRecord
<1>8. CASE e = "OUTCOME_CONFIRMED"
  <2>1. receipt[r] \in Receipt \cup {Null}
    BY DEF Inv, TypeOK
  <2>2. Patched(r) = [record EXCEPT !.receipt = receipt[r], !.state = to]
    BY <1>2, <1>8 DEF Patched, Patch, CaseRecord
  <2> QED
    BY <2>1, <2>2, <1>2, <1>3, <1>8 DEF CaseRecord
<1>9. CASE e \notin {"PROPOSE_ACTION", "APPROVE", "EXECUTION_SUCCEEDED", "EXECUTION_FAILED",
                     "OUTCOME_CONFIRMED"}
  <2>1. Patched(r) = [record EXCEPT !.state = to]
    BY <1>2, <1>9 DEF Patched, Patch, CaseRecord
  <2> QED
    BY <2>1, <1>2, <1>3, <1>9 DEF CaseRecord
<1>10. e = "EXECUTION_SUCCEEDED" => outcome[r] # Null
  BY <1>2 DEF Prepared
<1> QED
  BY <1>4, <1>5, <1>6, <1>7, <1>8, <1>9, <1>10

\* What transition saves is consistent if what its get returned was.
LEMMA PatchedConsistent ==
  ASSUME Inv, NEW r \in Request, pc[r] = "save"
  PROVE  Consistent(Patched(r))
<1> DEFINE record == read[r]
           e == event[r]
           new == Patched(r)
<1>1. RequestOK(r) /\ Called(r) /\ call[r] \in Arguments
  BY DEF Inv, RequestOK, CallOK, Called
<1>2. /\ record \in CaseRecord /\ Consistent(record) /\ record.state \in CaseState
      /\ Prepared(r) /\ Legal(record.state, e)
  BY <1>1 DEF Inv, TypeOK, RequestOK, ReadOK, StepOK, CaseRecord
<1>3. e \in ApproveEvents =>
        /\ current[r] # Null
        /\ record.proposal # Null
        /\ record.proposal = current[r].proposal
        /\ record.proposal.proposalId = call[r].proposalId
        /\ record.ownerId = call[r].owner
  BY <1>1, <1>2 DEF Prepared, RequestOK, ReadOK, ApprovalOK
<1>4. /\ e = "PROPOSE_ACTION" => ProposedBy(r) # Null /\ AnalysisBy(r) # Null
      /\ e = "APPROVE" => ApprovalBy(r) # Null
  <2>1. CASE e = "PROPOSE_ACTION"
    <3>1. call[r].input \in Input /\ analysis[r] # Null
      BY <1>1, <1>2, <2>1 DEF Prepared, SubmitEvents, RequestOK, CallOK
    <3> QED
      BY <3>1, <2>1, <1>1, ProposedType, AnalysisType, NullAssumption DEF Inv
  <2>2. CASE e = "APPROVE"
    <3>1. call[r].proposalId \in Request /\ current[r].proposal \in Proposal
      BY <1>1, <1>2, <1>3, <2>2
         DEF Prepared, ApproveEvents, RequestOK, CallOK, Inv, TypeOK, CaseRecord
    <3> QED
      BY <3>1, <2>2, <1>1, ApprovalType, NullAssumption DEF Inv
  <2> QED
    BY <2>1, <2>2
<1>5. /\ new.state = ApplyTransition(record.state, e)
      /\ new.ownerId = record.ownerId
      /\ new.proposal = IF e = "PROPOSE_ACTION" THEN ProposedBy(r) ELSE record.proposal
      /\ new.approval = IF e = "APPROVE" THEN ApprovalBy(r) ELSE record.approval
      /\ e = "PROPOSE_ACTION" => new.execution = AnalysisBy(r)
      /\ e = "EXECUTION_FAILED" /\ outcome[r] = Null /\ record.execution # Null =>
           new.execution # Null /\ ~new.execution.succeeded
      /\ (e # "PROPOSE_ACTION" => (new.execution = Null <=> record.execution = Null))
      /\ new.outcome = IF e \in {"EXECUTION_SUCCEEDED", "EXECUTION_FAILED"} /\ outcome[r] # Null
                       THEN outcome[r] ELSE record.outcome
      /\ new.receipt = IF e = "OUTCOME_CONFIRMED" THEN receipt[r] ELSE record.receipt
  BY PatchedFields
<1>6. ApprovalBy(r).actionCommitment = Commit(current[r].proposal)
      /\ ApprovalBy(r).proposalId = call[r].proposalId
      /\ ApprovalBy(r).approvedBy = call[r].owner
  BY DEF ApprovalBy
<1>14. /\ e = "SUBMIT" => record.state = "DRAFT" /\ new.state = "SUBMITTED"
       /\ e = "BEGIN_ANALYSIS" => record.state = "SUBMITTED" /\ new.state = "ANALYZING"
       /\ e = "PROPOSE_ACTION" => record.state = "ANALYZING" /\ new.state = "ACTION_PROPOSED"
       /\ e = "REQUEST_APPROVAL" =>
            record.state = "ACTION_PROPOSED" /\ new.state = "AWAITING_APPROVAL"
       /\ e = "APPROVE" => record.state = "AWAITING_APPROVAL" /\ new.state = "APPROVED"
       /\ e = "REJECT" => record.state = "AWAITING_APPROVAL" /\ new.state = "REJECTED"
       /\ e = "BEGIN_EXECUTION" => record.state = "APPROVED" /\ new.state = "EXECUTING"
       /\ e = "EXECUTION_SUCCEEDED" =>
            record.state = "EXECUTING" /\ new.state = "OUTCOME_PENDING"
       /\ e = "EXECUTION_FAILED" =>
            record.state \in {"ANALYZING", "EXECUTING"} /\ new.state = "EXECUTION_FAILED"
       /\ e = "OUTCOME_CONFIRMED" =>
            record.state = "OUTCOME_PENDING" /\ new.state = "VERIFIED_SUCCESS"
  BY <1>2, <1>5, TransitionTable
<1>15. SUFFICES Consistent(new)
  OBVIOUS
<1> HIDE DEF record, e, new
<1>7. CASE e \in SubmitEvents \cup {"REJECT"}
  BY <1>2, <1>4, <1>5, <1>7, <1>14 DEF SubmitEvents, Consistent
<1>8. CASE e = "APPROVE"
  BY <1>2, <1>3, <1>4, <1>5, <1>6, <1>8, <1>14 DEF ApproveEvents, Consistent
<1>9. CASE e = "BEGIN_EXECUTION"
  BY <1>2, <1>5, <1>9, <1>14 DEF Consistent
<1>10. CASE e = "EXECUTION_SUCCEEDED"
  <2>1. outcome[r] # Null /\ outcome[r].outcomeType # "no_response"
    BY <1>2, <1>10 DEF Prepared, e
  <2> QED
    BY <2>1, <1>2, <1>5, <1>10, <1>14 DEF Consistent
<1>11. CASE e = "EXECUTION_FAILED"
  <2>1. outcome[r] # Null => outcome[r].outcomeType = "no_response"
    BY <1>2, <1>11 DEF Prepared, e
  <2>2. record.state = "EXECUTING" /\ new.state = "EXECUTION_FAILED"
    BY <1>2, <1>3, <1>5, <1>11, <1>14 DEF ApproveEvents, Consistent
  <2>3. record.execution # Null /\ record.outcome = Null
    BY <2>2, <1>2 DEF Consistent
  <2> QED
    BY <2>1, <2>2, <2>3, <1>2, <1>5, <1>11 DEF Consistent
<1>12. CASE e = "OUTCOME_CONFIRMED"
  <2>1. receipt[r] # Null
    BY <1>2, <1>12 DEF Prepared, e
  <2> QED
    BY <2>1, <1>2, <1>5, <1>12, <1>14 DEF Consistent
<1>13. e \in SubmitEvents \cup ApproveEvents \cup {"REJECT"}
  BY <1>2 DEF Prepared, e
<1> QED
  BY <1>7, <1>8, <1>9, <1>10, <1>11, <1>12, <1>13 DEF ApproveEvents

-----------------------------------------------------------------------------
(* Who may write a case.                                                   *)

\* Writing a case keeps whose it is, and its proposal once there is one.
Evolves(c) ==
  store[c] # Null =>
    /\ store'[c] # Null
    /\ store'[c].ownerId = store[c].ownerId
    /\ store'[c].input = store[c].input
    /\ store[c].proposal # Null => store'[c].proposal = store[c].proposal

\* A call of submitCase in progress has its case to itself.
LEMMA SubmitIsAlone ==
  ASSUME Inv, NEW r \in Request, NEW q \in Request, InFlight(r), InFlight(q),
         Submits(q), call[r].case = call[q].case
  PROVE  r = q
<1>1. Called(r) /\ Called(q)
  BY DEF InFlight, Called, Steps
<1>2. CASE Submits(r)
  BY <1>1, <1>2 DEF Inv, OneSubmit
<1>3. CASE ~Submits(r)
  <2>1. PICK s \in Request : pc[s] = "done" /\ Submits(s) /\ call[s].case = call[r].case
    BY <1>1, <1>3 DEF Inv, OneSubmit, Known, Submits
  <2>2. s = q
    BY <2>1, <1>1 DEF Inv, OneSubmit, Called
  <2> QED
    BY <2>1, <2>2 DEF InFlight, Steps
<1> QED
  BY <1>2, <1>3

\* A case that others call has a proposal.
LEMMA KnownHasProposal ==
  ASSUME Inv, NEW r \in Request, Called(r), ~Submits(r)
  PROVE  store[call[r].case] # Null /\ store[call[r].case].proposal # Null
<1>1. PICK s \in Request : pc[s] = "done" /\ Submits(s) /\ call[s].case = call[r].case
  BY DEF Inv, OneSubmit, Known, Submits
<1> QED
  BY <1>1 DEF Inv, RequestOK, SubmitOK, Called

\* A save keeps whose case it is, and its proposal.
LEMMA SaveEvolves ==
  ASSUME Inv, NEW r \in Request, pc[r] = "save"
  PROVE  LET old == store[call[r].case]
             new == Patched(r)
         IN /\ old # Null /\ new # Null
            /\ new.ownerId = old.ownerId /\ new.input = old.input
            /\ old.proposal # Null => new.proposal = old.proposal
            /\ event[r] \in {"PROPOSE_ACTION", "REQUEST_APPROVAL"} => new.proposal # Null
<1> DEFINE old == store[call[r].case]
<1>1. /\ RequestOK(r) /\ ReadOK(r) /\ Prepared(r)
      /\ read[r] \in CaseRecord /\ read[r].state \in CaseState
  BY DEF Inv, TypeOK, RequestOK, ReadOK, StepOK, CaseRecord
<1>2. Patched(r) # Null
  BY PatchedFields, NullAssumption
<1>3. CASE event[r] = "PROPOSE_ACTION"
  <2>1. read[r].proposal = Null
    BY <1>1, <1>3, TransitionTable DEF ReadOK, Consistent
  <2>2. Called(r) /\ call[r].input \in Input /\ call[r] \in Arguments
    BY <1>1, <1>3 DEF Prepared, SubmitEvents, RequestOK, CallOK, Called
  <2>3. ProposedBy(r) # Null
    BY <2>2, ProposedType, NullAssumption DEF Inv
  <2> QED
    BY <2>1, <2>3, <1>1, <1>2, <1>3, PatchedFields DEF ReadOK
<1>4. CASE event[r] # "PROPOSE_ACTION"
  <2>1. event[r] = "REQUEST_APPROVAL" => old.proposal # Null
    BY <1>1 DEF Prepared, SubmitEvents, RequestOK, SubmitOK, Called
  <2> QED
    BY <2>1, <1>1, <1>2, <1>4, PatchedFields DEF ReadOK
<1> QED
  BY <1>3, <1>4

-----------------------------------------------------------------------------
(* The invariant: a step of one request.                                   *)

\* The step is not q's.
Unmoved(q) ==
  /\ pc'[q] = pc[q] /\ event'[q] = event[q] /\ read'[q] = read[q]
  /\ current'[q] = current[q] /\ analysis'[q] = analysis[q]
  /\ outcome'[q] = outcome[q] /\ receipt'[q] = receipt[q] /\ tx'[q] = tx[q]

\* A step of request r, on its own case.
StepOf(r) ==
  /\ InFlight(r) /\ pc'[r] # "idle" /\ call' = call
  /\ \A q \in Request \ {r} : Unmoved(q)
  /\ \A c \in Case \ {call[r].case} : store'[c] = store[c]
  /\ Evolves(call[r].case)
  /\ sent \subseteq sent' /\ sent' \subseteq sent \cup {r}

\* Such a step keeps the invariant of all other requests.
LEMMA OthersKeepInv ==
  ASSUME Inv, NEW r \in Request, StepOf(r), TypeOK', RequestOK(r)',
         store'[call[r].case] # Null => Consistent(store'[call[r].case])
  PROVE  Inv'
<1>1. Called(r) /\ call[r] \in Arguments /\ call[r].case \in Case /\ call[r] # Null
  BY ArgumentsAssumption
     DEF StepOf, InFlight, Steps, Called, Inv, RequestOK, CallOK, Arguments
<1>2. /\ \A q \in Request : Called(q)' <=> Called(q)
      /\ \A q \in Request : pc[q] = "done" => pc'[q] = "done"
  BY DEF StepOf, Unmoved, InFlight, Steps, Called
<1>3. \A c : Known(c) => Known(c)'
  BY <1>2 DEF Known, StepOf
<1>4. RecordsConsistent'
  <2> SUFFICES ASSUME NEW c \in Case, store'[c] # Null PROVE Consistent(store'[c])
    BY DEF RecordsConsistent, Consistent
  <2> QED
    BY DEF StepOf, Inv, RecordsConsistent
<1>5. OneSubmit'
  BY <1>2, <1>3 DEF Inv, OneSubmit, Submits, StepOf
<1>6. UnusedIsAbsent'
  BY <1>1 DEF Inv, UnusedIsAbsent, Unused, StepOf
<1>7. ASSUME NEW q \in Request \ {r} PROVE RequestOK(q)'
  <2>1. RequestOK(q) /\ Unmoved(q) /\ call'[q] = call[q]
    BY <1>7 DEF Inv, StepOf
  <2>2. Called(q) => call[q] \in Arguments /\ call[q].case \in Case
    BY <2>1 DEF RequestOK, CallOK, Arguments
  <2>3. Called(q) => Evolves(call[q].case)
    BY <2>2 DEF StepOf, Evolves
  <2>4. InFlight(q) /\ Submits(q) => store'[call[q].case] = store[call[q].case]
    <3>1. SUFFICES ASSUME InFlight(q), Submits(q), call[r].case = call[q].case PROVE FALSE
      BY <2>2 DEF StepOf, InFlight, Steps, Called
    <3> QED
      BY <3>1, SubmitIsAlone DEF StepOf
  <2>5. CallOK(q)'
    BY <2>1 DEF RequestOK, CallOK, Called, Submits, Unmoved
  <2>6. StepOK(q)'
    BY <2>1 DEF RequestOK, StepOK, Prepared, Submits, Unmoved
  <2>7. SubmitOK(q)'
    BY <2>1, <2>3, <2>4
       DEF RequestOK, SubmitOK, Called, Submits, Unmoved, InFlight, Steps, Evolves
  <2>8. ReadOK(q)'
    <3> SUFFICES ASSUME pc[q] = "save" PROVE ReadOK(q)'
      BY <2>1 DEF Unmoved, ReadOK
    <3>1. Called(q) /\ InFlight(q) /\ ReadOK(q)
      BY <2>1 DEF Called, InFlight, Steps, RequestOK
    <3>2. ~Submits(q) => store[call[q].case].proposal # Null
      BY <3>1, KnownHasProposal
    <3>3. /\ store'[call[q].case] # Null
          /\ store'[call[q].case].ownerId = store[call[q].case].ownerId
          /\ store'[call[q].case].input = store[call[q].case].input
          /\ store'[call[q].case].proposal = store[call[q].case].proposal
      BY <2>3, <2>4, <3>1, <3>2 DEF ReadOK, Evolves
    <3> QED
      BY <2>1, <3>1, <3>3 DEF ReadOK, Unmoved, Consistent
  <2>9. ApprovalOK(q)'
    BY <2>1, <2>3 DEF RequestOK, ApprovalOK, Called, Unmoved, Evolves
  <2>10. SentOK(q)'
    BY <1>7, <2>1 DEF RequestOK, SentOK, Unmoved, StepOf
  <2> QED
    BY <2>5, <2>6, <2>7, <2>8, <2>9, <2>10 DEF RequestOK
<1> QED
  BY <1>4, <1>5, <1>6, <1>7 DEF Inv

\* What Inv says of a request that is at a step.
LEMMA AtStep ==
  ASSUME Inv, NEW r \in Request, InFlight(r)
  PROVE  /\ Called(r) /\ call[r] \in Arguments /\ call[r].case \in Case
         /\ call[r].instance \in Instance
         /\ CallOK(r) /\ StepOK(r) /\ SubmitOK(r) /\ ReadOK(r) /\ ApprovalOK(r) /\ SentOK(r)
         /\ store[call[r].case] # Null =>
              store[call[r].case] \in CaseRecord /\ Consistent(store[call[r].case])
BY DEF Inv, TypeOK, RecordsConsistent, RequestOK, CallOK, Called, InFlight, Steps, Arguments

\* A new record is consistent, and the submit has its case to itself.
LEMMA CreateStep ==
  ASSUME Inv, NEW r \in Request, Create(r)
  PROVE  Inv' /\ Evolves(call[r].case)
<1>1. InFlight(r)
  BY DEF Create, InFlight, Steps
<1>2. Submits(r) /\ store[call[r].case] = Null /\ call[r].input \in Input
  BY <1>1, AtStep DEF Create, StepOK, SubmitOK, CallOK
<1>3. NewRecord(r) \in CaseRecord /\ NewRecord(r) # Null
  <2>1. NewRecord(r) \in CaseRecord
    BY <1>1, <1>2, AtStep DEF NewRecord, CaseRecord, CaseState, Arguments
  <2> QED
    BY <2>1, NullAssumption
<1>4. Consistent(NewRecord(r))
  BY DEF NewRecord, Consistent
<1>5. TypeOK'
  BY <1>1, <1>3, AtStep DEF Create, Transition, external, locals, Inv, TypeOK, Steps, CaseEvent
<1>6. StepOf(r) /\ store'[call[r].case] = NewRecord(r)
  BY <1>1, <1>2, AtStep
     DEF Create, Transition, external, locals, Inv, TypeOK, StepOf, Unmoved, Evolves
<1>7. pc'[r] = "get" /\ event'[r] = "SUBMIT" /\ call' = call /\ current' = current
  BY DEF Create, Transition, locals, Inv, TypeOK
<1>8. RequestOK(r)'
  <2>1. CallOK(r)' /\ StepOK(r)' /\ SentOK(r)'
    BY <1>1, <1>2, <1>7, AtStep
       DEF CallOK, StepOK, SentOK, Prepared, SubmitEvents, ApproveEvents, Called, Submits,
           Create, external, locals
  <2>2. SubmitOK(r)' /\ ReadOK(r)'
    BY <1>3, <1>6, <1>7 DEF SubmitOK, ReadOK
  <2>3. ApprovalOK(r)'
    BY <1>1, <1>2, <1>7, AtStep DEF ApprovalOK, Submits
  <2> QED
    BY <2>1, <2>2, <2>3 DEF RequestOK
<1> QED
  BY <1>4, <1>5, <1>6, <1>8, OthersKeepInv DEF StepOf

\* A get gives the save that follows a record that ReadOK allows.
LEMMA TransitionGetStep ==
  ASSUME Inv, NEW r \in Request, TransitionGet(r)
  PROVE  Inv'
<1> DEFINE record == store[call[r].case]
<1>1. InFlight(r) /\ Prepared(r)
  BY DEF TransitionGet, InFlight, Steps, Inv, RequestOK, StepOK
<1>2. TypeOK'
  BY <1>1, AtStep DEF TransitionGet, Goto, external, locals, Inv, TypeOK, Steps, Resting
<1>3. StepOf(r) /\ store' = store
  BY <1>1 DEF TransitionGet, Goto, external, locals, Inv, TypeOK, StepOf, Unmoved, Evolves
<1>4. /\ call' = call /\ event' = event /\ sent' = sent /\ tx' = tx /\ current' = current
      /\ analysis' = analysis /\ outcome' = outcome /\ receipt' = receipt
  BY DEF TransitionGet, Goto, external, locals
<1>5. \/ pc'[r] = "failed"
      \/ /\ pc'[r] = "save" /\ read'[r] = record
         /\ record # Null /\ Legal(record.state, event[r])
  BY DEF TransitionGet, Goto, Inv, TypeOK
<1>6. RequestOK(r)'
  <2>1. CallOK(r)' /\ SentOK(r)' /\ ApprovalOK(r)'
    BY <1>1, <1>3, <1>4, <1>5, AtStep
       DEF CallOK, SentOK, ApprovalOK, Called, Submits, InFlight, Steps
  <2>2. StepOK(r)'
    BY <1>1, <1>4, <1>5, AtStep DEF StepOK, Prepared, Submits, TransitionGet
  <2>3. SubmitOK(r)'
    BY <1>1, <1>3, <1>4, <1>5, AtStep
       DEF SubmitOK, Called, Submits, InFlight, Steps, TransitionGet
  <2>4. ReadOK(r)'
    BY <1>1, <1>3, <1>4, <1>5, AtStep DEF ReadOK, Consistent
  <2> QED
    BY <2>1, <2>2, <2>3, <2>4 DEF RequestOK
<1> QED
  BY <1>1, <1>2, <1>3, <1>6, AtStep, OthersKeepInv

\* A save replaces a record by one that differs in its progress only, so what
\* the other requests on the case have read still fits.
LEMMA TransitionSaveStep ==
  ASSUME Inv, NEW r \in Request, TransitionSave(r)
  PROVE  Inv' /\ Evolves(call[r].case)
<1> DEFINE old == store[call[r].case]
           new == Patched(r)
<1>1. InFlight(r) /\ Prepared(r) /\ pc[r] = "save"
  BY DEF TransitionSave, InFlight, Steps, Inv, RequestOK, StepOK
<1>2. new \in CaseRecord /\ new # Null /\ Consistent(new)
  BY <1>1, PatchedFields, PatchedConsistent, NullAssumption
<1>3. event[r] = "EXECUTION_SUCCEEDED" =>
        BuildReceipt(r, call[r].case, new, "sandbox") \in Receipt
  <2> SUFFICES ASSUME event[r] = "EXECUTION_SUCCEEDED"
               PROVE  BuildReceipt(r, call[r].case, new, "sandbox") \in Receipt
    OBVIOUS
  <2>1. new.state = "OUTCOME_PENDING"
    BY <1>1, PatchedFields, TransitionTable, AtStep DEF ReadOK, Inv, TypeOK, CaseRecord
  <2>2. /\ new.proposal # Null /\ new.approval # Null
        /\ new.execution # Null /\ new.outcome # Null
    BY <2>1, <1>2 DEF Consistent
  <2> QED
    BY <2>2, <1>1, <1>2, AtStep, ReceiptType DEF CaseRecord
<1>4. receipt' \in [Request -> Receipt \cup {Null}]
  BY <1>3 DEF TransitionSave, Inv, TypeOK
<1>5. /\ call' = call /\ sent' = sent /\ tx' = tx /\ current' = current
      /\ analysis' = analysis /\ outcome' = outcome
      /\ store' = [store EXCEPT ![call[r].case] = new]
      /\ read' = [read EXCEPT ![r] = Null]
      /\ ledger' = ledger /\ chain' = chain
      /\ \A q \in Request \ {r} : receipt'[q] = receipt[q]
      /\ event[r] = "EXECUTION_SUCCEEDED" => receipt'[r] \in Receipt
      /\ event[r] # "EXECUTION_SUCCEEDED" => receipt'[r] = receipt[r]
  BY <1>3 DEF TransitionSave, external, Inv, TypeOK
<1>6. /\ pc' = [pc EXCEPT ![r] = pc'[r]]
      /\ event' = [event EXCEPT ![r] = event'[r]]
      /\ event[r] = "SUBMIT" => pc'[r] = "get" /\ event'[r] = "BEGIN_ANALYSIS"
      /\ event[r] = "BEGIN_ANALYSIS" => pc'[r] = "analyze"
      /\ event[r] = "PROPOSE_ACTION" => pc'[r] = "get" /\ event'[r] = "REQUEST_APPROVAL"
      /\ event[r] = "REQUEST_APPROVAL" => pc'[r] = "final"
      /\ event[r] = "APPROVE" => pc'[r] = "get" /\ event'[r] = "BEGIN_EXECUTION"
      /\ event[r] = "BEGIN_EXECUTION" => pc'[r] = "send"
      /\ event[r] = "EXECUTION_SUCCEEDED" => pc'[r] = "upload"
      /\ event[r] = "EXECUTION_FAILED" =>
           pc'[r] = IF outcome[r] = Null THEN "final" ELSE "done"
      /\ event[r] \in {"REJECT", "OUTCOME_CONFIRMED"} => pc'[r] = "done"
      /\ event'[r] \in CaseEvent \cup {Null}
  BY <1>1 DEF TransitionSave, Continue, Transition, Goto, Inv, TypeOK, CaseEvent, Prepared,
              SubmitEvents, ApproveEvents
<1>7. pc'[r] \in {"get", "analyze", "final", "send", "upload", "done"}
  BY <1>1, <1>6 DEF Prepared, SubmitEvents, ApproveEvents
<1>8. TypeOK'
  BY <1>1, <1>2, <1>4, <1>5, <1>6, <1>7, AtStep DEF Inv, TypeOK, Steps, Resting
<1>9. Evolves(call[r].case) /\ store'[call[r].case] = new
  BY <1>1, <1>5, SaveEvolves, AtStep DEF Evolves, Inv, TypeOK
<1>10. StepOf(r)
  BY <1>1, <1>5, <1>6, <1>7, <1>9 DEF StepOf, Unmoved, Inv, TypeOK
<1>11. RequestOK(r)'
  <2>1. CallOK(r)' /\ SentOK(r)'
    BY <1>1, <1>5, <1>7, AtStep DEF CallOK, SentOK, Called, Submits, InFlight, Steps
  <2>2. ApprovalOK(r)'
    BY <1>1, <1>5, <1>7, <1>9, AtStep DEF ApprovalOK, Called, Evolves
  <2>3. StepOK(r)'
    <3>1. pc'[r] = "get" =>
            event[r] \in {"SUBMIT", "PROPOSE_ACTION", "APPROVE"} /\ Prepared(r)'
      BY <1>1, <1>5, <1>6 DEF Prepared, Submits, SubmitEvents, ApproveEvents
    <3>2. pc'[r] = "analyze" => Submits(r)'
      BY <1>1, <1>5, <1>6 DEF Prepared, Submits, SubmitEvents, ApproveEvents
    <3>3. pc'[r] = "send" =>
            call'[r].kind = "approve" /\ current'[r] # Null /\ outcome'[r] = Null
      BY <1>1, <1>5, <1>6 DEF Prepared, Submits, SubmitEvents, ApproveEvents
    <3>4. pc'[r] = "upload" =>
            /\ call'[r].kind = "approve"
            /\ current'[r] # Null /\ outcome'[r] # Null /\ receipt'[r] # Null
      BY <1>1, <1>5, <1>6, NullAssumption DEF Prepared, Submits, SubmitEvents, ApproveEvents
    <3>5. tx'[r] # "none" => receipt'[r] # Null
      BY <1>1, <1>5, AtStep, NullAssumption DEF StepOK
    <3> QED
      BY <3>1, <3>2, <3>3, <3>4, <3>5, <1>7 DEF StepOK
  <2>4. SubmitOK(r)' /\ ReadOK(r)'
    BY <1>1, <1>2, <1>5, <1>6, <1>7, <1>9, SaveEvolves
       DEF SubmitOK, ReadOK, Called, Submits, InFlight, Steps, Prepared, SubmitEvents,
           ApproveEvents
  <2> QED
    BY <2>1, <2>2, <2>3, <2>4 DEF RequestOK
<1> QED
  BY <1>2, <1>8, <1>9, <1>10, <1>11, OthersKeepInv

\* A step of request r that does not write the case.
QuietStepOf(r) ==
  /\ StepOf(r) /\ store' = store
  /\ pc[r] # "create" /\ pc'[r] \notin {"create", "save"}
  /\ Submits(r) => /\ pc'[r] = "get" => event'[r] # "REQUEST_APPROVAL"
                   /\ pc'[r] \in {"final", "done"} => pc[r] = "final"

\* A step of r that leaves the store alone keeps the invariant if it leaves r
\* with what its next step needs.
LEMMA QuietStep ==
  ASSUME Inv, NEW r \in Request, QuietStepOf(r), TypeOK', StepOK(r)', ApprovalOK(r)', SentOK(r)'
  PROVE  Inv'
<1>1. /\ StepOf(r) /\ InFlight(r) /\ store' = store /\ call' = call
      /\ pc[r] # "create" /\ pc'[r] # "save" /\ pc'[r] # "idle"
  BY DEF QuietStepOf, StepOf
<1>2. CallOK(r)' /\ ReadOK(r)'
  BY <1>1, AtStep DEF CallOK, Called, Submits, ReadOK
<1>3. SubmitOK(r)'
  BY <1>1, AtStep DEF QuietStepOf, SubmitOK, Called, Submits, InFlight
<1>4. RequestOK(r)'
  BY <1>2, <1>3 DEF RequestOK
<1>5. store'[call[r].case] # Null => Consistent(store'[call[r].case])
  BY <1>1, AtStep
<1> QED
  BY <1>1, <1>4, <1>5, OthersKeepInv

\* analyze provides what PROPOSE_ACTION records.
LEMMA AnalyzeStep ==
  ASSUME Inv, NEW r \in Request, Analyze(r)
  PROVE  Inv'
<1>1. InFlight(r)
  BY DEF Analyze, InFlight, Steps
<1>2. TypeOK'
  BY DEF Analyze, Analysis, Transition, external, Inv, TypeOK, Steps, CaseEvent
<1>3. QuietStepOf(r)
  BY <1>1 DEF Analyze, Transition, external, Inv, TypeOK, QuietStepOf, StepOf, Unmoved, Evolves
<1>4. /\ pc'[r] = "get" /\ event'[r] = "PROPOSE_ACTION" /\ analysis'[r] # Null
      /\ call' = call /\ current' = current /\ sent' = sent /\ store' = store
      /\ tx' = tx /\ receipt' = receipt /\ Submits(r)
  <2>1. Submits(r)
    BY <1>1, AtStep DEF Analyze, StepOK
  <2>2. analysis'[r] \in Analysis
    BY DEF Analyze, Analysis, Inv, TypeOK
  <2> QED
    BY <2>1, <2>2, AnalysisAssumption DEF Analyze, Transition, external, Inv, TypeOK
<1>5. StepOK(r)'
  BY <1>1, <1>4, AtStep DEF StepOK, Prepared, SubmitEvents, ApproveEvents, Submits
<1>6. ApprovalOK(r)' /\ SentOK(r)'
  BY <1>1, <1>4, AtStep DEF ApprovalOK, SentOK, Called
<1> QED
  BY <1>2, <1>3, <1>5, <1>6, QuietStep

\* The get for the answer of a submit finds the proposal.
LEMMA FinalStep ==
  ASSUME Inv, NEW r \in Request, Final(r)
  PROVE  Inv'
<1>1. InFlight(r)
  BY DEF Final, InFlight, Steps
<1>2. TypeOK'
  BY DEF Final, Goto, external, locals, Inv, TypeOK, Resting
<1>3. QuietStepOf(r)
  BY <1>1 DEF Final, Goto, external, locals, Inv, TypeOK, QuietStepOf, StepOf, Unmoved, Evolves
<1>4. /\ pc'[r] \in {"done", "failed"} /\ call' = call /\ current' = current
      /\ sent' = sent /\ store' = store /\ tx' = tx /\ receipt' = receipt
  BY DEF Final, Goto, external, locals, Inv, TypeOK
<1>5. StepOK(r)' /\ ApprovalOK(r)' /\ SentOK(r)'
  BY <1>1, <1>4, AtStep DEF StepOK, ApprovalOK, SentOK, Called
<1> QED
  BY <1>2, <1>3, <1>5, QuietStep

\* getForOwner gives the approval a record whose owner and proposal are final.
LEMMA AuthorizeStep ==
  ASSUME Inv, NEW r \in Request, Authorize(r)
  PROVE  Inv'
<1> DEFINE record == store[call[r].case]
<1>1. InFlight(r) /\ pc[r] = "authorize" /\ ~Submits(r) /\ outcome[r] = Null
  BY AtStep DEF Authorize, InFlight, Steps, StepOK
<1>2. record \in CaseRecord \cup {Null}
  BY <1>1, AtStep DEF Inv, TypeOK
<1>3. TypeOK'
  BY <1>2 DEF Authorize, Transition, Goto, external, Inv, TypeOK, Steps, Resting, CaseEvent
<1>4. QuietStepOf(r)
  BY <1>1 DEF Authorize, Transition, Goto, external, Inv, TypeOK, QuietStepOf, StepOf, Unmoved,
              Evolves
<1>5. /\ call' = call /\ sent' = sent /\ store' = store /\ tx' = tx
      /\ outcome' = outcome /\ receipt' = receipt
      /\ \/ /\ pc'[r] = "get" /\ event'[r] = "REJECT" /\ call[r].kind = "reject"
            /\ current' = current
         \/ /\ pc'[r] = "get" /\ event'[r] = "APPROVE" /\ call[r].kind = "approve"
            /\ record # Null /\ record.ownerId = call[r].owner
            /\ record.proposal # Null /\ record.proposal.proposalId = call[r].proposalId
            /\ current'[r] = record
         \/ pc'[r] = "failed" /\ current' = current
  BY DEF Authorize, Transition, Goto, external, Inv, TypeOK
<1>6. StepOK(r)'
  BY <1>1, <1>5, AtStep DEF StepOK, Prepared, SubmitEvents, ApproveEvents, Submits
<1>7. ApprovalOK(r)' /\ SentOK(r)'
  BY <1>1, <1>5, AtStep DEF ApprovalOK, SentOK, Called
<1> QED
  BY <1>3, <1>4, <1>6, <1>7, QuietStep

\* What sendAction returns makes an outcome that fits the event raised for it.
LEMMA SendReturnsStep ==
  ASSUME Inv, NEW r \in Request, SendReturns(r)
  PROVE  Inv'
<1> DEFINE o == OutcomeOf(SandboxResult(current[r].input))
<1>1. InFlight(r) /\ call[r].kind = "approve" /\ current[r] # Null
  BY AtStep DEF SendReturns, InFlight, Steps, StepOK
<1>2. o \in Outcome /\ o # Null
  <2>1. current[r].input \in Input
    BY <1>1 DEF Inv, TypeOK, CaseRecord
  <2> QED
    BY <2>1, SimulatedOutcome, NullAssumption
<1> HIDE DEF o
<1>3. /\ pc' = [pc EXCEPT ![r] = "get"] /\ event' = [event EXCEPT ![r] = event'[r]]
      /\ event'[r] = IF o.outcomeType = "no_response" THEN "EXECUTION_FAILED"
                     ELSE "EXECUTION_SUCCEEDED"
      /\ outcome' = [outcome EXCEPT ![r] = o] /\ sent' = sent \cup {r}
      /\ UNCHANGED <<store, ledger, chain, tx, call, read, current, analysis, receipt>>
  BY DEF SendReturns, Transition, Inv, TypeOK, o
<1>4. TypeOK'
  BY <1>2, <1>3 DEF Inv, TypeOK, Steps, CaseEvent
<1>5. QuietStepOf(r)
  BY <1>1, <1>3
     DEF SendReturns, Submits, Inv, TypeOK, QuietStepOf, StepOf, Unmoved, Evolves
<1>6. outcome'[r] = o /\ pc'[r] = "get"
  BY <1>3 DEF Inv, TypeOK
<1>7. StepOK(r)'
  BY <1>1, <1>2, <1>3, <1>6, AtStep
     DEF StepOK, Prepared, SubmitEvents, ApproveEvents, Submits
<1>8. ApprovalOK(r)' /\ SentOK(r)'
  BY <1>1, <1>3, <1>6, AtStep DEF ApprovalOK, SentOK, Called
<1> QED
  BY <1>4, <1>5, <1>7, <1>8, QuietStep

\* The catch of sendAction raises EXECUTION_FAILED without an outcome.
LEMMA SendThrowsStep ==
  ASSUME Inv, NEW r \in Request, SendThrows(r)
  PROVE  Inv'
<1>1. InFlight(r) /\ call[r].kind = "approve" /\ current[r] # Null /\ outcome[r] = Null
  BY AtStep DEF SendThrows, InFlight, Steps, StepOK
<1>2. TypeOK'
  BY DEF SendThrows, Transition, external, locals, Inv, TypeOK, Steps, CaseEvent
<1>3. QuietStepOf(r)
  BY <1>1 DEF SendThrows, Transition, external, locals, Submits, Inv, TypeOK, QuietStepOf,
              StepOf, Unmoved, Evolves
<1>4. /\ pc'[r] = "get" /\ event'[r] = "EXECUTION_FAILED"
      /\ UNCHANGED <<store, sent, tx, call, locals>>
  BY DEF SendThrows, Transition, external, Inv, TypeOK
<1>5. StepOK(r)' /\ ApprovalOK(r)' /\ SentOK(r)'
  BY <1>1, <1>4, AtStep
     DEF locals, StepOK, Prepared, SubmitEvents, ApproveEvents, Submits, ApprovalOK, SentOK, Called
<1> QED
  BY <1>2, <1>3, <1>5, QuietStep

\* From the upload of the receipt to the assessment of the fee.
Settling == {"upload", "anchor", "wait", "fee"}

\* Upload and anchoring keep a receipt a receipt.
LEMMA SettlingStep ==
  ASSUME Inv, NEW r \in Request, pc[r] \in Settling,
         Upload(r) \/ AnchorSubmit(r) \/ AnchorSkip(r) \/ AnchorDone(r) \/ AnchorLost(r)
  PROVE  Inv'
<1>1. /\ InFlight(r) /\ call[r].kind = "approve" /\ current[r] # Null
      /\ outcome[r] # Null /\ receipt[r] # Null /\ receipt[r] \in Receipt
  BY AtStep DEF Settling, InFlight, Steps, StepOK, Inv, TypeOK
<1>2. /\ receipt' \in [Request -> Receipt \cup {Null}] /\ receipt'[r] # Null
      /\ \A q \in Request \ {r} : receipt'[q] = receipt[q]
  <2>1. /\ [receipt[r] EXCEPT !.storageRootHash = "root"] \in Receipt
        /\ [receipt[r] EXCEPT !.chainTxHash = r] \in Receipt
    BY <1>1 DEF Receipt
  <2>2. \/ receipt' = receipt
        \/ receipt' = [receipt EXCEPT ![r] = [receipt[r] EXCEPT !.storageRootHash = "root"]]
        \/ receipt' = [receipt EXCEPT ![r] = [receipt[r] EXCEPT !.chainTxHash = r]]
    BY DEF Upload, AnchorSubmit, AnchorSkip, AnchorDone, AnchorLost, locals
  <2> QED
    BY <1>1, <2>1, <2>2, NullAssumption DEF Inv, TypeOK
<1>3. /\ pc' = [pc EXCEPT ![r] = pc'[r]] /\ pc'[r] \in {"anchor", "wait", "fee"}
      /\ tx' \in [Request -> {"none", "pending", "mined", "reverted"}]
      /\ \A q \in Request \ {r} : tx'[q] = tx[q]
      /\ UNCHANGED <<store, ledger, chain, sent, call, event, read, current, analysis, outcome>>
  BY DEF Upload, AnchorSubmit, AnchorSkip, AnchorDone, AnchorLost, Goto, external, locals,
         Inv, TypeOK
<1>4. TypeOK'
  BY <1>2, <1>3 DEF Inv, TypeOK, Steps
<1>5. QuietStepOf(r)
  BY <1>1, <1>2, <1>3 DEF Settling, Submits, Inv, TypeOK, QuietStepOf, StepOf, Unmoved, Evolves
<1>6. StepOK(r)' /\ ApprovalOK(r)' /\ SentOK(r)'
  BY <1>1, <1>2, <1>3, AtStep DEF StepOK, Submits, ApprovalOK, SentOK, Called
<1> QED
  BY <1>4, <1>5, <1>6, QuietStep

\* A fee is a SettlementRecord, and OUTCOME_CONFIRMED has its receipt.
LEMMA AssessFeeStep ==
  ASSUME Inv, NEW r \in Request, AssessFee(r)
  PROVE  Inv'
<1> DEFINE fee == ComputeFee(outcome[r].verifiedSavingsCents)
           i == call[r].instance
           c == call[r].case
<1>1. /\ InFlight(r) /\ call[r].kind = "approve" /\ current[r] # Null
      /\ outcome[r] # Null /\ outcome[r] \in Outcome /\ receipt[r] # Null
      /\ i \in Instance /\ c \in Case
  BY AtStep DEF AssessFee, InFlight, Steps, StepOK, Inv, TypeOK
<1>2. FeeIsDue(outcome[r]) => Assessed(fee) \in SettlementRecord
  <2> SUFFICES ASSUME FeeIsDue(outcome[r]) PROVE Assessed(fee) \in SettlementRecord
    OBVIOUS
  <2>1. outcome[r].verifiedSavingsCents \in Nat
    BY <1>1 DEF FeeIsDue, Outcome
  <2>2. fee \in Fee
    BY <2>1, FeeParts
  <2> QED
    BY <2>2 DEF Assessed, SettlementRecord
<1> HIDE DEF fee
<1>3. ledger' \in [Instance -> [Case -> SettlementRecord \cup {Null}]]
  <2>1. \/ ledger' = ledger
        \/ /\ FeeIsDue(outcome[r])
           /\ ledger' = [ledger EXCEPT ![i] = [ledger[i] EXCEPT ![c] = Assessed(fee)]]
    BY DEF AssessFee, fee
  <2> DEFINE records == [ledger[i] EXCEPT ![c] = Assessed(fee)]
  <2>2. FeeIsDue(outcome[r]) => records \in [Case -> SettlementRecord \cup {Null}]
    BY <1>1, <1>2 DEF Inv, TypeOK
  <2> HIDE DEF records
  <2>3. \/ ledger' = ledger
        \/ FeeIsDue(outcome[r]) /\ ledger' = [ledger EXCEPT ![i] = records]
    BY <2>1 DEF records
  <2> QED
    BY <1>1, <2>2, <2>3 DEF Inv, TypeOK
<1>4. TypeOK'
  BY <1>3 DEF AssessFee, Transition, locals, Inv, TypeOK, Steps, CaseEvent
<1>5. QuietStepOf(r)
  BY <1>1 DEF AssessFee, Transition, locals, Submits, Inv, TypeOK, QuietStepOf, StepOf,
              Unmoved, Evolves
<1>6. /\ pc'[r] = "get" /\ event'[r] = "OUTCOME_CONFIRMED"
      /\ UNCHANGED <<store, sent, tx, call, locals>>
  BY DEF AssessFee, Transition, Inv, TypeOK
<1>7. StepOK(r)' /\ ApprovalOK(r)' /\ SentOK(r)'
  BY <1>1, <1>6, AtStep
     DEF locals, StepOK, Prepared, SubmitEvents, ApproveEvents, Submits, ApprovalOK, SentOK, Called
<1> QED
  BY <1>4, <1>5, <1>7, QuietStep

\* A store call that fails has saved what it would have saved, or nothing.
LEMMA ThrowStep ==
  ASSUME Inv, NEW r \in Request, Throw(r)
  PROVE  Inv' /\ Evolves(call[r].case)
<1> DEFINE c == call[r].case
           new == IF pc[r] = "create" THEN NewRecord(r) ELSE Patched(r)
<1>1. InFlight(r) /\ pc[r] \in {"create", "get", "save", "final", "authorize", "send"}
  BY DEF Throw, InFlight, Steps
<1>2. CASE store' = store
  <2>1. store' = store
    BY <1>2
  <2>2. TypeOK'
    BY <2>1 DEF Throw, Goto, external, locals, Inv, TypeOK, Resting
  <2>3. StepOf(r) /\ Evolves(c)
    BY <1>1, <2>1 DEF Throw, Goto, external, locals, Inv, TypeOK, StepOf, Unmoved, Evolves
  <2>4. pc'[r] = "failed" /\ UNCHANGED <<store, sent, tx, call, locals>>
    BY <2>1 DEF Throw, Goto, external, Inv, TypeOK
  <2>5. RequestOK(r)'
    BY <1>1, <2>4, AtStep
       DEF locals, RequestOK, CallOK, StepOK, SubmitOK, ReadOK, ApprovalOK, SentOK, Called,
           Submits, InFlight, Steps
  <2> QED
    BY <1>1, <2>1, <2>2, <2>3, <2>5, AtStep, OthersKeepInv
<1>3. CASE pc[r] \in {"create", "save"} /\ store' = [store EXCEPT ![c] = new]
  <2>1. new \in CaseRecord /\ Consistent(new) /\ new # Null
    <3>1. CASE pc[r] = "create"
      <4>1. call[r].input \in Input
        BY <1>1, <3>1, AtStep DEF StepOK, CallOK
      <4>2. NewRecord(r) \in CaseRecord
        BY <1>1, <4>1, AtStep DEF NewRecord, CaseRecord, CaseState, Arguments
      <4>3. Consistent(NewRecord(r))
        BY DEF NewRecord, Consistent
      <4> QED
        BY <3>1, <4>2, <4>3, NullAssumption
    <3>2. CASE pc[r] = "save"
      BY <3>2, PatchedFields, PatchedConsistent, NullAssumption
    <3> QED
      BY <1>3, <3>1, <3>2
  <2>2. Evolves(c) /\ store'[c] = new
    <3>1. CASE pc[r] = "create"
      BY <1>1, <1>3, <3>1, AtStep DEF Evolves, StepOK, SubmitOK, Inv, TypeOK
    <3>2. CASE pc[r] = "save"
      BY <1>1, <1>3, <3>2, SaveEvolves, AtStep DEF Evolves, Inv, TypeOK
    <3> QED
      BY <1>3, <3>1, <3>2
  <2> HIDE DEF new
  <2>3. TypeOK'
    BY <1>1, <1>3, <2>1, AtStep DEF Throw, Goto, external, locals, Inv, TypeOK, Resting
  <2>4. StepOf(r)
    BY <1>1, <1>3, <2>2 DEF Throw, Goto, external, locals, Inv, TypeOK, StepOf, Unmoved
  <2>5. pc'[r] = "failed" /\ UNCHANGED <<sent, tx, call, locals>>
    BY DEF Throw, Goto, external, Inv, TypeOK
  <2>6. CallOK(r)' /\ StepOK(r)' /\ SubmitOK(r)' /\ ReadOK(r)' /\ SentOK(r)'
    BY <1>1, <2>5, AtStep
       DEF locals, CallOK, StepOK, SubmitOK, ReadOK, SentOK, Called, Submits, InFlight, Steps
  <2>7. ApprovalOK(r)'
    BY <1>1, <2>2, <2>5, AtStep DEF locals, ApprovalOK, Called, Evolves
  <2> QED
    BY <2>1, <2>2, <2>3, <2>4, <2>6, <2>7, OthersKeepInv DEF RequestOK
<1> QED
  BY <1>2, <1>3 DEF Throw

\* The chain's own step: it is nobody's, and the receipt is there to anchor.
LEMMA MineStep ==
  ASSUME Inv, NEW r \in Request, Mine(r)
  PROVE  Inv'
<1>1. RequestOK(r) /\ receipt[r] \in Receipt
  BY DEF Mine, Inv, RequestOK, StepOK, TypeOK
<1>2. receipt[r].commitments.receipt \in ReceiptHash
  BY <1>1 DEF Receipt, Commitments
<1>3. TypeOK'
  BY <1>2 DEF Mine, locals, Inv, TypeOK
<1>4. /\ UNCHANGED <<store, sent, pc, call, event, read, locals>>
      /\ \A q \in Request : tx'[q] # "none" => tx[q] # "none"
  BY DEF Mine, Inv, TypeOK
<1>5. ASSUME NEW q \in Request PROVE RequestOK(q)'
  <2>1. RequestOK(q)
    BY DEF Inv
  <2> QED
    BY <2>1, <1>4
       DEF locals, RequestOK, CallOK, StepOK, Prepared, SubmitOK, ReadOK, ApprovalOK, SentOK,
           Called, Submits, InFlight, Consistent
<1>6. RecordsConsistent' /\ OneSubmit' /\ UnusedIsAbsent'
  BY <1>4 DEF Inv, RecordsConsistent, Consistent, OneSubmit, UnusedIsAbsent, Unused, Known,
              Called, Submits
<1> QED
  BY <1>3, <1>5, <1>6 DEF Inv

\* A crash ends requests without touching the store or the chain.
LEMMA CrashStep ==
  ASSUME Inv, NEW i \in Instance, Crash(i)
  PROVE  Inv'
<1> DEFINE lost == { r \in Request : InFlight(r) /\ call[r].instance = i }
<1>1. TypeOK'
  BY DEF Crash, locals, Inv, TypeOK, Resting
<1>2. /\ UNCHANGED <<store, chain, tx, sent, call, event, locals>>
      /\ \A q \in Request : /\ pc'[q] = IF q \in lost THEN "failed" ELSE pc[q]
                            /\ read'[q] = IF q \in lost THEN Null ELSE read[q]
      /\ \A q \in lost : InFlight(q)
  BY DEF Crash
<1> HIDE DEF lost
<1>3. ASSUME NEW q \in Request PROVE RequestOK(q)'
  <2>1. RequestOK(q)
    BY DEF Inv
  <2>2. CASE q \in lost
    BY <2>1, <2>2, <1>2
       DEF locals, RequestOK, CallOK, StepOK, SubmitOK, ReadOK, ApprovalOK, SentOK, Called,
           Submits, InFlight, Steps
  <2>3. CASE q \notin lost
    BY <2>1, <2>3, <1>2
       DEF locals, RequestOK, CallOK, StepOK, Prepared, SubmitOK, ReadOK, ApprovalOK, SentOK,
           Called, Submits, InFlight, Consistent
  <2> QED
    BY <2>2, <2>3
<1>4. \A q \in Request : /\ Called(q)' <=> Called(q)
                         /\ pc[q] = "done" => pc'[q] = "done"
  BY <1>2 DEF Called, InFlight, Steps
<1>5. \A c : Known(c) => Known(c)'
  BY <1>2, <1>4 DEF Known
<1>6. RecordsConsistent' /\ UnusedIsAbsent'
  BY <1>2 DEF Inv, RecordsConsistent, Consistent, UnusedIsAbsent, Unused
<1>7. OneSubmit'
  BY <1>2, <1>4, <1>5 DEF Inv, OneSubmit, Submits
<1> QED
  BY <1>1, <1>3, <1>6, <1>7 DEF Inv

\* The arrival of a request r at its first step.
LEMMA ArriveStep ==
  ASSUME Inv, NEW r \in Request, NEW arguments \in Arguments, NEW step,
         Arrive(r, arguments, step),
         \/ /\ step = "create" /\ arguments.kind = "submit" /\ arguments.input \in Input
            /\ Unused(arguments.case)
         \/ /\ step = "authorize" /\ arguments.kind \in {"approve", "reject"}
            /\ arguments.kind = "approve" => arguments.proposalId \in Request
            /\ Known(arguments.case)
  PROVE  Inv'
<1>1. /\ ~Called(r) /\ call[r] = Null /\ outcome[r] = Null /\ r \notin sent
      /\ current[r] = Null
  BY DEF Arrive, Called, Inv, RequestOK, CallOK, StepOK, SentOK, ApprovalOK
<1>2. TypeOK'
  BY DEF Arrive, external, locals, Inv, TypeOK, Steps
<1>3. /\ UNCHANGED <<store, external, event, read, locals>>
      /\ pc'[r] = step /\ call'[r] = arguments
      /\ \A q \in Request \ {r} : pc'[q] = pc[q] /\ call'[q] = call[q]
      /\ arguments # Null /\ arguments.case \in Case
  BY ArgumentsAssumption DEF Arrive, Arguments, Inv, TypeOK
<1>4. \A q \in Request \ {r} : Called(q)' <=> Called(q)
  BY <1>3 DEF Called
<1>5. \A c : Known(c) => Known(c)'
  <2> SUFFICES ASSUME NEW c, Known(c) PROVE Known(c)'
    OBVIOUS
  <2>1. PICK s \in Request : pc[s] = "done" /\ call[s].kind = "submit" /\ call[s].case = c
    BY DEF Known
  <2>2. s # r
    BY <2>1, <1>1 DEF Called
  <2> QED
    BY <2>1, <2>2, <1>3 DEF Known
<1>6. ASSUME NEW q \in Request \ {r} PROVE RequestOK(q)'
  <2>1. RequestOK(q) /\ pc'[q] = pc[q] /\ call'[q] = call[q]
    BY <1>3 DEF Inv
  <2> QED
    BY <2>1, <1>3
       DEF external, locals, RequestOK, CallOK, StepOK, Prepared, SubmitOK, ReadOK, ApprovalOK,
           SentOK, Called, Submits, InFlight, Consistent
<1>7. RequestOK(r)'
  <2>1. store[arguments.case] = Null \/ step = "authorize"
    BY <1>3 DEF Inv, UnusedIsAbsent
  <2>2. tx[r] # "none" => receipt[r] # Null
    BY DEF Inv, RequestOK, StepOK
  <2> QED
    BY <2>1, <2>2, <1>1, <1>3
       DEF external, locals, RequestOK, CallOK, StepOK, SubmitOK, ReadOK, ApprovalOK, SentOK,
           Called, Submits, InFlight, Steps
<1>8. RecordsConsistent' /\ UnusedIsAbsent'
  BY <1>1, <1>3 DEF Inv, RecordsConsistent, Consistent, UnusedIsAbsent, Unused
<1>9. OneSubmit'
  <2>1. Submits(r)' => \A q \in Request \ {r} : Called(q) => call[q].case # arguments.case
    BY <1>3, ArgumentsAssumption
       DEF Submits, Unused, Inv, RequestOK, CallOK
  <2>2. ~Submits(r)' => Known(arguments.case)'
    BY <1>3, <1>5 DEF Submits
  <2> QED
    BY <2>1, <2>2, <1>3, <1>4, <1>5 DEF Inv, OneSubmit, Submits
<1> QED
  BY <1>2, <1>6, <1>7, <1>8, <1>9 DEF Inv

\* A request arrives with arguments of its method, on a case that is known, or
\* new if it is a submit.
LEMMA ArrivalStep ==
  ASSUME Inv, NEW r \in Request, ArriveSubmit(r) \/ ArriveApprove(r) \/ ArriveReject(r)
  PROVE  Inv'
<1>1. CASE ArriveSubmit(r)
  <2>1. PICK c \in Case, o \in Owner, i \in Instance, input \in Input :
          /\ Unused(c)
          /\ Arrive(r, [kind |-> "submit", case |-> c, owner |-> o, instance |-> i,
                        input |-> input, proposalId |-> Null], "create")
    BY <1>1 DEF ArriveSubmit
  <2> DEFINE arguments == [kind |-> "submit", case |-> c, owner |-> o, instance |-> i,
                           input |-> input, proposalId |-> Null]
  <2>2. arguments \in Arguments
    BY DEF Arguments
  <2> QED
    BY <2>1, <2>2, ArriveStep
<1>2. CASE ArriveApprove(r)
  <2>1. PICK c \in Case, o \in Owner, i \in Instance, p \in Request :
          /\ Known(c)
          /\ Arrive(r, [kind |-> "approve", case |-> c, owner |-> o, instance |-> i,
                        input |-> Null, proposalId |-> p], "authorize")
    BY <1>2 DEF ArriveApprove
  <2> DEFINE arguments == [kind |-> "approve", case |-> c, owner |-> o, instance |-> i,
                           input |-> Null, proposalId |-> p]
  <2>2. arguments \in Arguments
    BY DEF Arguments
  <2> QED
    BY <2>1, <2>2, ArriveStep
<1>3. CASE ArriveReject(r)
  <2>1. PICK c \in Case, o \in Owner, i \in Instance :
          /\ Known(c)
          /\ Arrive(r, [kind |-> "reject", case |-> c, owner |-> o, instance |-> i,
                        input |-> Null, proposalId |-> Null], "authorize")
    BY <1>3 DEF ArriveReject
  <2> DEFINE arguments == [kind |-> "reject", case |-> c, owner |-> o, instance |-> i,
                           input |-> Null, proposalId |-> Null]
  <2>2. arguments \in Arguments
    BY DEF Arguments
  <2> QED
    BY <2>1, <2>2, ArriveStep
<1> QED
  BY <1>1, <1>2, <1>3

-----------------------------------------------------------------------------
(* The theorems.                                                           *)

\* The invariant holds initially.
LEMMA InitInv == Init => Inv
<1> SUFFICES ASSUME Init PROVE Inv
  OBVIOUS
<1>1. TypeOK
  BY DEF Init, TypeOK, Resting
<1>2. RecordsConsistent /\ OneSubmit /\ UnusedIsAbsent
  BY DEF Init, RecordsConsistent, OneSubmit, UnusedIsAbsent, Called
<1>3. \A r \in Request : RequestOK(r)
  BY DEF Init, RequestOK, CallOK, StepOK, SubmitOK, ReadOK, ApprovalOK, SentOK, Called
<1> QED
  BY <1>1, <1>2, <1>3 DEF Inv

\* Every step preserves it.
LEMMA NextInv == Inv /\ [Next]_vars => Inv'
<1> SUFFICES ASSUME Inv, [Next]_vars PROVE Inv'
  OBVIOUS
<1>1. CASE UNCHANGED vars
  <2>1. UNCHANGED <<store, ledger, chain, tx, sent, pc, call, event, read, current, analysis,
                    outcome, receipt>>
    BY <1>1 DEF vars, external, locals
  <2> QED
    BY <2>1
       DEF Inv, TypeOK, RecordsConsistent, Consistent, OneSubmit, UnusedIsAbsent, Unused, Known,
           RequestOK, CallOK, StepOK, Prepared, SubmitOK, ReadOK, ApprovalOK, SentOK, Called,
           Submits, InFlight
<1>2. ASSUME NEW r \in Request, ArriveSubmit(r) \/ ArriveApprove(r) \/ ArriveReject(r)
      PROVE  Inv'
  BY <1>2, ArrivalStep
<1>3. ASSUME NEW r \in Request, Serve(r) \/ AnchorLost(r)
      PROVE  Inv'
  <2>1. Upload(r) \/ AnchorSubmit(r) \/ AnchorSkip(r) \/ AnchorDone(r) \/ AnchorLost(r)
          => pc[r] \in Settling
    BY DEF Upload, AnchorSubmit, AnchorSkip, AnchorDone, AnchorLost, Settling
  <2> QED
    BY <1>3, <2>1, CreateStep, TransitionGetStep, TransitionSaveStep, AnalyzeStep, FinalStep,
       AuthorizeStep, SendReturnsStep, SendThrowsStep, SettlingStep, AssessFeeStep DEF Serve
<1>4. ASSUME NEW r \in Request, Mine(r) PROVE Inv'
  BY <1>4, MineStep
<1>5. ASSUME NEW r \in Request, Throw(r) PROVE Inv'
  BY <1>5, ThrowStep
<1>6. ASSUME NEW i \in Instance, Crash(i) PROVE Inv'
  BY <1>6, CrashStep
<1> QED
  BY <1>1, <1>2, <1>3, <1>4, <1>5, <1>6 DEF Next, Quiescent

\* The invariant holds throughout, however requests overlap and whatever fails.
THEOREM Invariance == Spec => []Inv
BY InitInv, NextInv, PTL DEF Spec

\* Every variable keeps its type: each handler finds what it needs, and makes
\* and stores artifacts of the shapes of types.ts.
THEOREM TypeCorrect == Spec => []TypeOK
<1>1. Inv => TypeOK
  BY DEF Inv
<1> QED
  BY <1>1, Invariance, PTL

\* Every stored record is the result of one chain of legal transitions, with
\* the owner's approval of the proposal beside it, even though
\* CaseStore.transition is not atomic.
THEOREM RecordsStayConsistent == Spec => []RecordsConsistent
<1>1. Inv => RecordsConsistent
  BY DEF Inv
<1> QED
  BY <1>1, Invariance, PTL

\* What approveAndExecute sends is the proposal on record, which the owner
\* named, whatever other requests did between the read and the send.
THEOREM OnlyApprovedLeave == Spec => []OnlyApprovedMessagesLeave
<1>1. Inv => OnlyApprovedMessagesLeave
  BY DEF Inv, TypeOK, OnlyApprovedMessagesLeave, RequestOK, SentOK, ApprovalOK
<1> QED
  BY <1>1, Invariance, PTL

\* A step writes no case but that of its request, and keeps whose it is.
LEMMA NextEvolves ==
  ASSUME Inv, [Next]_vars, NEW c \in Case
  PROVE  Evolves(c)
<1>1. CASE store' = store
  BY <1>1 DEF Evolves
<1>2. CASE \E r \in Request : Create(r) \/ TransitionSave(r) \/ Throw(r)
  <2>1. PICK r \in Request : Create(r) \/ TransitionSave(r) \/ Throw(r)
    BY <1>2
  <2>2. Evolves(call[r].case)
    BY <2>1, CreateStep, TransitionSaveStep, ThrowStep
  <2>3. c # call[r].case => store'[c] = store[c]
    BY <2>1 DEF Create, TransitionSave, Throw, Inv, TypeOK
  <2> QED
    BY <2>2, <2>3 DEF Evolves
<1> QED
  <2>1. UNCHANGED vars => store' = store
    BY DEF vars
  <2>2. ASSUME NEW r \in Request,
               \/ ArriveSubmit(r) \/ ArriveApprove(r) \/ ArriveReject(r)
               \/ TransitionGet(r) \/ Analyze(r) \/ Final(r) \/ Authorize(r)
               \/ SendReturns(r) \/ SendThrows(r) \/ Upload(r) \/ AnchorSubmit(r)
               \/ AnchorSkip(r) \/ AnchorDone(r) \/ AnchorLost(r) \/ AssessFee(r) \/ Mine(r)
        PROVE  store' = store
    BY <2>2
       DEF ArriveSubmit, ArriveApprove, ArriveReject, Arrive, TransitionGet, Analyze, Final,
           Authorize, SendReturns, SendThrows, Upload, AnchorSubmit, AnchorSkip, AnchorDone,
           AnchorLost, AssessFee, Mine
  <2>3. \A i \in Instance : Crash(i) => store' = store
    BY DEF Crash
  <2> QED
    BY <1>1, <1>2, <2>1, <2>2, <2>3 DEF Next, Serve, Quiescent

\* The owner and the input of a case never change, nor its proposal once there
\* is one: approveAndExecute and the race of two saves cannot replace what the
\* user was shown.
THEOREM IdentityIsFixed == Spec => CaseIdentityFixed
<1>1. ASSUME Inv, [Next]_vars
      PROVE  [\A c \in Case : store[c] # Null =>
                /\ store'[c] # Null
                /\ store'[c].ownerId = store[c].ownerId
                /\ store'[c].input = store[c].input
                /\ store[c].proposal # Null => store'[c].proposal = store[c].proposal]_vars
  BY <1>1, NextEvolves DEF Evolves
<1> QED
  BY <1>1, Invariance, PTL DEF Spec, CaseIdentityFixed

-----------------------------------------------------------------------------
(* Fees.                                                                   *)

\* A request that sent its message keeps its arguments.
LEMMA SentCallsStay ==
  ASSUME Inv, [Next]_vars, NEW r \in sent
  PROVE  call'[r] = call[r]
<1>1. r \in Request /\ Called(r)
  BY DEF Inv, TypeOK, RequestOK, SentOK, ApprovalOK
<1>2. CASE \E q \in Request : ArriveSubmit(q) \/ ArriveApprove(q) \/ ArriveReject(q)
  BY <1>1, <1>2 DEF ArriveSubmit, ArriveApprove, ArriveReject, Arrive, Called, Inv, TypeOK
<1>3. ASSUME NEW q \in Request,
             Serve(q) \/ AnchorLost(q) \/ Mine(q) \/ Throw(q)
      PROVE  call' = call
  BY <1>3 DEF Serve, Create, TransitionGet, TransitionSave, Analyze, Final, Authorize,
              SendReturns, SendThrows, Upload, AnchorSubmit, AnchorSkip, AnchorDone, AnchorLost,
              AssessFee, Mine, Throw
<1>4. \A i \in Instance : Crash(i) => call' = call
  BY DEF Crash
<1>5. UNCHANGED vars => call' = call
  BY DEF vars
<1> QED
  BY <1>2, <1>3, <1>4, <1>5 DEF Next, Quiescent

\* The steps that neither send, nor assess a fee, nor lose a ledger.
LEMMA OtherStepsKeepFees ==
  ASSUME Inv, [Next]_vars,
         ~\E r \in Request : SendReturns(r) \/ AssessFee(r),
         ~\E i \in Instance : Crash(i)
  PROVE  ledger' = ledger /\ outcome' = outcome /\ sent' = sent
<1>1. ASSUME NEW r \in Request,
             ArriveSubmit(r) \/ ArriveApprove(r) \/ ArriveReject(r)
      PROVE  ledger' = ledger /\ outcome' = outcome /\ sent' = sent
  BY <1>1 DEF ArriveSubmit, ArriveApprove, ArriveReject, Arrive, external, locals
<1>2. ASSUME NEW r \in Request,
             Serve(r) \/ AnchorLost(r) \/ Mine(r) \/ Throw(r)
      PROVE  ledger' = ledger /\ outcome' = outcome /\ sent' = sent
  BY <1>2 DEF Serve, Create, TransitionGet, TransitionSave, Analyze, Final, Authorize,
              SendThrows, Upload, AnchorSubmit, AnchorSkip, AnchorDone, AnchorLost, Mine, Throw,
              external, locals
<1>3. UNCHANGED vars => ledger' = ledger /\ outcome' = outcome /\ sent' = sent
  BY DEF vars, external, locals
<1> QED
  BY <1>1, <1>2, <1>3 DEF Next, Quiescent

\* sendAction makes an outcome for a message it sends; no fee changes.
LEMMA SendReturnsFees ==
  ASSUME Inv, [Next]_vars, FeeInv, NEW r \in Request, SendReturns(r)
  PROVE  FeeInv'
<1> DEFINE o == OutcomeOf(SandboxResult(current[r].input))
<1>1. pc[r] = "send" /\ outcome[r] = Null /\ r \notin sent /\ current[r].input \in Input
  BY DEF SendReturns, Inv, RequestOK, StepOK, TypeOK, CaseRecord, FeeInv, OutcomeOK
<1>2. /\ FeeIsDue(o) => /\ o.counterpartyConfirmation
                        /\ o.verifiedSavingsCents = o.claimedSavingsCents
      /\ o # Null
  BY <1>1, SimulatedOutcome, NullAssumption DEF FeeIsDue
<1>3. /\ ledger' = ledger /\ sent' = sent \cup {r} /\ call' = call
      /\ outcome' = [outcome EXCEPT ![r] = o]
  BY DEF SendReturns
<1> HIDE DEF o
<1>4. \A q \in Request : OutcomeOK(q)'
  BY <1>2, <1>3 DEF FeeInv, OutcomeOK, Inv, TypeOK
<1>5. FeeBacked'
  <2> SUFFICES ASSUME NEW i \in Instance, NEW c \in Case, ledger[i][c] # Null
               PROVE  \E q \in sent' :
                        /\ call'[q].case = c /\ call'[q].instance = i
                        /\ outcome'[q].counterpartyConfirmation
                        /\ outcome'[q].verifiedSavingsCents = outcome'[q].claimedSavingsCents
                        /\ ledger'[i][c].fee.verifiedSavingsCents = outcome'[q].verifiedSavingsCents
                        /\ ledger'[i][c].fee.verifiedSavingsCents > 0
    BY <1>3 DEF FeeBacked
  <2>1. PICK q \in sent : /\ call[q].case = c /\ call[q].instance = i
                          /\ outcome[q].counterpartyConfirmation
                          /\ outcome[q].verifiedSavingsCents = outcome[q].claimedSavingsCents
                          /\ ledger[i][c].fee.verifiedSavingsCents = outcome[q].verifiedSavingsCents
                          /\ ledger[i][c].fee.verifiedSavingsCents > 0
    BY DEF FeeInv, FeeBacked
  <2>2. q # r
    BY <1>1
  <2> QED
    BY <2>1, <2>2, <1>3 DEF Inv, TypeOK
<1>6. FeesBounded'
  BY <1>3 DEF FeeInv, FeesBounded
<1> QED
  BY <1>4, <1>5, <1>6 DEF FeeInv

\* assessFee books the fee of an outcome whose savings are verified.
LEMMA AssessFeeFees ==
  ASSUME Inv, [Next]_vars, FeeInv, NEW r \in Request, AssessFee(r)
  PROVE  FeeInv'
<1> DEFINE i == call[r].instance
           c == call[r].case
           v == outcome[r].verifiedSavingsCents
           entry == Assessed(ComputeFee(v))
<1>1. /\ outcome[r] \in Outcome /\ r \in sent /\ i \in Instance /\ c \in Case
      /\ FeeIsDue(outcome[r]) =>
           outcome[r].counterpartyConfirmation /\ v = outcome[r].claimedSavingsCents
  BY AtStep DEF AssessFee, InFlight, Steps, StepOK, Inv, TypeOK, FeeInv, OutcomeOK
<1>2. FeeIsDue(outcome[r]) =>
        /\ v > 0
        /\ entry.fee.verifiedSavingsCents = v
        /\ entry.fee.feeCents \in 0 .. v
        /\ entry.fee.netToUserCents = v - entry.fee.feeCents
  BY <1>1, FeeParts DEF FeeIsDue, Outcome, Assessed
<1>3. /\ sent' = sent /\ call' = call /\ outcome' = outcome
      /\ \/ ledger' = ledger
         \/ /\ FeeIsDue(outcome[r])
            /\ ledger' = [ledger EXCEPT ![i] = [ledger[i] EXCEPT ![c] = entry]]
  BY DEF AssessFee, locals
<1>4. ASSUME NEW j \in Instance, NEW d \in Case
      PROVE  \/ ledger'[j][d] = ledger[j][d]
             \/ /\ FeeIsDue(outcome[r]) /\ j = i /\ d = c
                /\ ledger'[j][d] = entry
  BY <1>1, <1>3 DEF Inv, TypeOK
<1> HIDE DEF entry
<1>5. FeeBacked'
  <2> SUFFICES ASSUME NEW j \in Instance, NEW d \in Case, ledger'[j][d] # Null
               PROVE  \E q \in sent :
                        /\ call[q].case = d /\ call[q].instance = j
                        /\ outcome[q].counterpartyConfirmation
                        /\ outcome[q].verifiedSavingsCents = outcome[q].claimedSavingsCents
                        /\ ledger'[j][d].fee.verifiedSavingsCents = outcome[q].verifiedSavingsCents
                        /\ ledger'[j][d].fee.verifiedSavingsCents > 0
    BY <1>3 DEF FeeBacked
  <2>1. CASE ledger'[j][d] = ledger[j][d]
    BY <2>1 DEF FeeInv, FeeBacked
  <2>2. CASE FeeIsDue(outcome[r]) /\ j = i /\ d = c /\ ledger'[j][d] = entry
    BY <2>2, <1>1, <1>2
  <2> QED
    BY <2>1, <2>2, <1>4
<1>6. FeesBounded'
  BY <1>2, <1>4 DEF FeeInv, FeesBounded
<1>7. \A q \in Request : OutcomeOK(q)'
  BY <1>3 DEF FeeInv, OutcomeOK
<1> QED
  BY <1>5, <1>6, <1>7 DEF FeeInv

\* A crash takes the instance's fees with it and leaves the outcomes.
LEMMA CrashFees ==
  ASSUME Inv, [Next]_vars, FeeInv, NEW i \in Instance, Crash(i)
  PROVE  FeeInv'
<1>1. /\ sent' = sent /\ call' = call /\ outcome' = outcome
      /\ \A j \in Instance, c \in Case : ledger'[j][c] # Null => ledger'[j][c] = ledger[j][c]
  BY DEF Crash, locals, Inv, TypeOK
<1> QED
  BY <1>1 DEF FeeInv, FeeBacked, FeesBounded, OutcomeOK

\* Every step preserves what is said of fees.
LEMMA NextFees == Inv /\ FeeInv /\ [Next]_vars => FeeInv'
<1> SUFFICES ASSUME Inv, FeeInv, [Next]_vars PROVE FeeInv'
  OBVIOUS
<1>1. CASE \E r \in Request : SendReturns(r) \/ AssessFee(r)
  BY <1>1, SendReturnsFees, AssessFeeFees
<1>2. CASE \E i \in Instance : Crash(i)
  BY <1>2, CrashFees
<1>3. CASE /\ ~\E r \in Request : SendReturns(r) \/ AssessFee(r)
           /\ ~\E i \in Instance : Crash(i)
  <2>1. /\ ledger' = ledger /\ outcome' = outcome /\ sent' = sent
        /\ \A q \in sent : call'[q] = call[q]
    BY <1>3, OtherStepsKeepFees, SentCallsStay
  <2> QED
    BY <2>1 DEF FeeInv, FeeBacked, FeesBounded, OutcomeOK
<1> QED
  BY <1>1, <1>2, <1>3

\* FeeInv holds throughout, given Inv.
LEMMA FeeInvariance == Spec => []FeeInv
<1>1. Init => FeeInv
  BY DEF Init, FeeInv, FeeBacked, FeesBounded, OutcomeOK
<1> QED
  BY <1>1, NextFees, Invariance, PTL DEF Spec

\* Every fee on the books is of confirmed savings of a message that was sent
\* by the same instance on that case (fee.ts: never from a claim).
THEOREM FeesAreBacked == Spec => []FeeBacked
<1>1. FeeInv => FeeBacked
  BY DEF FeeInv
<1> QED
  BY <1>1, FeeInvariance, PTL

\* A fee and what is left to the user add up to the savings, for any amount:
\* the rounding of computeFee never makes either negative.
THEOREM FeesAreBounded == Spec => []FeesBounded
<1>1. FeeInv => FeesBounded
  BY DEF FeeInv
<1> QED
  BY <1>1, FeeInvariance, PTL

-----------------------------------------------------------------------------
(* Anchors.                                                                *)

\* What a handler does, whether or not it fails, is a step of its request.
LEMMA HandlerStep ==
  ASSUME Inv, NEW r \in Request, Serve(r) \/ AnchorLost(r) \/ Throw(r)
  PROVE  StepOf(r)
<1>1. /\ InFlight(r) /\ pc'[r] # "idle" /\ call' = call
      /\ \A q \in Request \ {r} : pc'[q] = pc[q]
  <2>1. CASE TransitionSave(r)
    BY <2>1 DEF TransitionSave, Continue, Transition, Goto, InFlight, Steps, Inv, TypeOK
  <2>2. CASE ~TransitionSave(r)
    BY <2>2 DEF Serve, Create, TransitionGet, Analyze, Final, Authorize, SendReturns, SendThrows,
                Upload, AnchorSubmit, AnchorSkip, AnchorDone, AssessFee, AnchorLost, Throw,
                Transition, Goto, InFlight, Steps, Inv, TypeOK
  <2> QED
    BY <2>1, <2>2
<1>2. \A q \in Request \ {r} : Unmoved(q)
  <2> SUFFICES ASSUME NEW q \in Request \ {r} PROVE Unmoved(q)
    OBVIOUS
  <2>1. CASE TransitionSave(r)
    BY <1>1, <2>1 DEF Unmoved, TransitionSave, Continue, Transition, Goto, external, Inv, TypeOK
  <2>2. CASE Create(r) \/ TransitionGet(r) \/ Analyze(r) \/ Final(r) \/ Authorize(r) \/ Throw(r)
    BY <1>1, <2>2 DEF Unmoved, Create, TransitionGet, Analyze, Final, Authorize, Throw,
                      Transition, Goto, external, locals, Inv, TypeOK
  <2>3. CASE SendReturns(r) \/ SendThrows(r) \/ AssessFee(r) \/ AnchorSkip(r) \/ AnchorLost(r)
             \/ AnchorSubmit(r)
    BY <1>1, <2>3 DEF Unmoved, SendReturns, SendThrows, AssessFee, AnchorSkip, AnchorLost,
                      AnchorSubmit, Transition, Goto, external, locals, Inv, TypeOK
  <2>4. CASE Upload(r) \/ AnchorDone(r)
    BY <1>1, <2>4 DEF Unmoved, Upload, AnchorDone, Goto, external, Inv, TypeOK
  <2> QED
    BY <2>1, <2>2, <2>3, <2>4 DEF Serve
<1>3. \A c \in Case \ {call[r].case} : store'[c] = store[c]
  BY DEF Serve, Create, TransitionGet, TransitionSave, Analyze, Final, Authorize, SendReturns,
         SendThrows, Upload, AnchorSubmit, AnchorSkip, AnchorDone, AssessFee, AnchorLost, Throw,
         Inv, TypeOK
<1>4. Evolves(call[r].case)
  <2>1. call[r].case \in Case /\ [Next]_vars
    BY <1>1, AtStep DEF Next
  <2> QED
    BY <2>1, NextEvolves
<1>5. sent \subseteq sent' /\ sent' \subseteq sent \cup {r}
  BY DEF Serve, Create, TransitionGet, TransitionSave, Analyze, Final, Authorize, SendReturns,
         SendThrows, Upload, AnchorSubmit, AnchorSkip, AnchorDone, AssessFee, AnchorLost, Throw,
         external
<1> QED
  BY <1>1, <1>2, <1>3, <1>4, <1>5 DEF StepOf

-----------------------------------------------------------------------------
(* Steps of requests.                                                      *)

\* The receipt on record is the one that was there, or that of request r.
ReceiptFrom(r, c) ==
  store'[c] # Null /\ store'[c].receipt # Null =>
    \/ store[c] # Null /\ store'[c].receipt = store[c].receipt
    \/ receipt[r] # Null /\ store'[c].receipt = receipt[r]

\* A step of a request keeps AnchorInv if it keeps what that says of itself.
LEMMA RequestAnchors ==
  ASSUME Inv, AnchorInv, NEW r \in Request, StepOf(r), TypeOK', AnchorOK(r)',
         chain' = chain, tx[r] = "mined" => tx'[r] = "mined",
         ReceiptFrom(r, call[r].case)
  PROVE  AnchorInv'
<1>1. \A q \in Request : tx[q] = "mined" => tx'[q] = "mined"
  BY DEF StepOf, Unmoved
<1>2. call' = call /\ call[r].case \in Case
  BY AtStep DEF StepOf
<1>3. ASSUME NEW q \in Request \ {r} PROVE AnchorOK(q)'
  BY <1>2 DEF AnchorInv, AnchorOK, Anchored, StepOf, Unmoved
<1>4. ChainFilled'
  BY <1>1, <1>2 DEF AnchorInv, ChainFilled
<1>5. StoredAnchorGenuine'
  <2> DEFINE stored == store'[call[r].case].receipt
  <2> SUFFICES ASSUME NEW c \in Case, store'[c] # Null, store'[c].receipt # Null,
                      store'[c].receipt.chainTxHash # Null
               PROVE  /\ tx'[store'[c].receipt.chainTxHash] = "mined"
                      /\ call'[store'[c].receipt.chainTxHash].case = c
                      /\ chain'[c] = store'[c].receipt.commitments.receipt
    BY DEF StoredAnchorGenuine
  <2>1. store'[c].receipt.chainTxHash \in Request
    BY DEF TypeOK, CaseRecord, Receipt
  <2>2. CASE store[c] # Null /\ store'[c].receipt = store[c].receipt
    BY <1>1, <1>2, <2>1, <2>2 DEF AnchorInv, StoredAnchorGenuine
  <2>3. CASE c = call[r].case /\ receipt[r] # Null /\ store'[c].receipt = receipt[r]
    BY <1>1, <1>2, <2>3 DEF AnchorInv, AnchorOK
  <2>4. c = call[r].case \/ store'[c] = store[c]
    BY DEF StepOf
  <2> QED
    BY <2>2, <2>3, <2>4 DEF ReceiptFrom
<1> QED
  BY <1>3, <1>4, <1>5 DEF AnchorInv

\* A save puts no receipt on record but with OUTCOME_CONFIRMED.
LEMMA SavedReceipt ==
  ASSUME Inv, NEW r \in Request, pc[r] = "save"
  PROVE  Patched(r).receipt = IF event[r] = "OUTCOME_CONFIRMED" THEN receipt[r] ELSE Null
<1>1. /\ read[r] \in CaseRecord /\ read[r].state \in CaseState
      /\ Consistent(read[r]) /\ Legal(read[r].state, event[r]) /\ Prepared(r)
  BY DEF Inv, TypeOK, RequestOK, ReadOK, StepOK, CaseRecord
<1>2. read[r].state # "VERIFIED_SUCCESS"
  BY <1>1, TransitionTable DEF Prepared, SubmitEvents, ApproveEvents
<1>3. read[r].receipt = Null
  BY <1>1, <1>2 DEF Consistent
<1> QED
  BY <1>3, PatchedFields

\* The steps before a request has a receipt to anchor, and those that only pass
\* it on.
LEMMA PlainStepAnchors ==
  ASSUME Inv, AnchorInv, NEW r \in Request, TypeOK',
         \/ Create(r) \/ TransitionGet(r) \/ Analyze(r) \/ Final(r) \/ Authorize(r)
         \/ SendReturns(r) \/ SendThrows(r) \/ AnchorSkip(r) \/ AnchorLost(r)
         \/ AssessFee(r) \/ Throw(r)
  PROVE  AnchorInv'
<1>1. StepOf(r) /\ call[r].case \in Case
  BY HandlerStep, AtStep DEF Serve, StepOf
<1>2. tx' = tx /\ receipt' = receipt /\ chain' = chain /\ call' = call
  BY DEF Create, TransitionGet, Analyze, Final, Authorize, SendReturns, SendThrows, AnchorSkip,
         AnchorLost, AssessFee, Throw, external, locals
<1>5. Anchored(r) => Anchored(r)' /\ outcome' = outcome
  <2>1. CASE SendReturns(r) \/ Create(r) \/ Analyze(r) \/ Authorize(r) \/ Final(r)
    BY <2>1 DEF SendReturns, Create, Analyze, Authorize, Final, Anchored
  <2>2. CASE TransitionGet(r)
    <3>1. /\ pc[r] = "get" /\ pc'[r] \in {"save", "failed"} /\ event' = event
          /\ outcome' = outcome
      BY <2>2 DEF TransitionGet, Goto, locals, Inv, TypeOK
    <3> QED
      BY <3>1 DEF Anchored
  <2>3. CASE SendThrows(r) \/ AssessFee(r)
    BY <2>3 DEF SendThrows, AssessFee, Transition, locals, Anchored, Inv, TypeOK
  <2>4. CASE AnchorSkip(r) \/ AnchorLost(r) \/ Throw(r)
    BY <2>4 DEF AnchorSkip, AnchorLost, Throw, Goto, locals, Anchored, Inv, TypeOK
  <2> QED
    BY <2>1, <2>2, <2>3, <2>4
<1>3. AnchorOK(r)'
  BY <1>2, <1>5 DEF AnchorInv, AnchorOK
<1>4. ReceiptFrom(r, call[r].case)
  <2>1. CASE store' = store
    BY <2>1 DEF ReceiptFrom
  <2>2. CASE store' = [store EXCEPT ![call[r].case] = NewRecord(r)]
    BY <1>1, <2>2 DEF ReceiptFrom, NewRecord, Inv, TypeOK
  <2>3. CASE pc[r] = "save" /\ store' = [store EXCEPT ![call[r].case] = Patched(r)]
    BY <1>1, <2>3, SavedReceipt DEF ReceiptFrom, Inv, TypeOK
  <2> QED
    BY <2>1, <2>2, <2>3
       DEF Create, TransitionGet, Analyze, Final, Authorize, SendReturns, SendThrows, AnchorSkip,
           AnchorLost, AssessFee, Throw, external
<1> QED
  BY <1>1, <1>2, <1>3, <1>4, RequestAnchors

\* The receipt is built before it is anchored and saved after.
LEMMA SaveAnchors ==
  ASSUME Inv, AnchorInv, NEW r \in Request, TypeOK', TransitionSave(r)
  PROVE  AnchorInv'
<1>1. StepOf(r) /\ call[r].case \in Case /\ pc[r] = "save" /\ Prepared(r)
  BY HandlerStep, AtStep DEF Serve, StepOf, TransitionSave, StepOK
<1>2. /\ tx' = tx /\ chain' = chain /\ call' = call /\ outcome' = outcome
      /\ event[r] = "OUTCOME_CONFIRMED" => pc'[r] = "done"
      /\ event[r] # "EXECUTION_SUCCEEDED" => receipt'[r] = receipt[r]
      /\ event[r] = "EXECUTION_SUCCEEDED" => receipt'[r].chainTxHash = Null
      /\ store' = [store EXCEPT ![call[r].case] = Patched(r)]
  BY DEF TransitionSave, Continue, Goto, external, BuildReceipt, Inv, TypeOK
<1>3. AnchorOK(r)'
  BY <1>1, <1>2 DEF AnchorInv, AnchorOK, Anchored
<1>4. ReceiptFrom(r, call[r].case)
  BY <1>1, <1>2, SavedReceipt DEF ReceiptFrom, Inv, TypeOK
<1> QED
  BY <1>1, <1>2, <1>3, <1>4, RequestAnchors

\* From the upload to the answer to the transaction: a hash is put on the
\* receipt when the transaction was mined.
LEMMA SettlingAnchors ==
  ASSUME Inv, AnchorInv, NEW r \in Request, TypeOK',
         Upload(r) \/ AnchorSubmit(r) \/ AnchorDone(r)
  PROVE  AnchorInv'
<1>1. StepOf(r) /\ call[r].case \in Case /\ outcome[r] # Null
      /\ receipt[r] # Null /\ receipt[r] \in Receipt
  <2>1. StepOf(r) /\ pc[r] \in {"upload", "anchor", "wait"}
    BY HandlerStep DEF Serve, Upload, AnchorSubmit, AnchorDone
  <2> QED
    BY <2>1, AtStep DEF StepOf, StepOK, Inv, TypeOK
<1>2. chain' = chain /\ call' = call /\ outcome' = outcome /\ store' = store
  BY DEF Upload, AnchorSubmit, AnchorDone, external, locals
<1>3. AnchorOK(r)' /\ (tx[r] = "mined" => tx'[r] = "mined")
  <2>1. CASE Upload(r)
    <3>1. tx[r] = "none" /\ receipt[r].chainTxHash = Null
      BY <1>1, <2>1 DEF Upload, AnchorInv, AnchorOK, Anchored, Inv, TypeOK
    <3>2. tx' = tx /\ receipt'[r].chainTxHash = receipt[r].chainTxHash
      <4>1. \/ receipt' = receipt
            \/ receipt' = [receipt EXCEPT ![r] = [receipt[r] EXCEPT !.storageRootHash = "root"]]
        BY <2>1 DEF Upload
      <4>2. [receipt[r] EXCEPT !.storageRootHash = "root"].chainTxHash = receipt[r].chainTxHash
        BY <1>1 DEF Receipt
      <4> QED
        BY <2>1, <4>1, <4>2 DEF Upload, external, Inv, TypeOK
    <3> QED
      BY <1>1, <3>1, <3>2 DEF AnchorOK
  <2>2. CASE AnchorSubmit(r)
    <3>1. tx[r] = "none" /\ receipt[r].chainTxHash = Null
      BY <1>1, <2>2 DEF AnchorSubmit, AnchorInv, AnchorOK, Anchored, Inv, TypeOK
    <3>2. tx'[r] = "pending" /\ pc'[r] = "wait" /\ receipt' = receipt
      BY <2>2 DEF AnchorSubmit, Goto, locals, Inv, TypeOK
    <3> QED
      BY <1>1, <1>2, <3>1, <3>2 DEF AnchorOK, Anchored
  <2>3. CASE AnchorDone(r)
    <3>1. tx' = tx /\ pc'[r] = "fee"
      BY <2>3 DEF AnchorDone, Goto, external, Inv, TypeOK
    <3>2. \/ receipt' = receipt
          \/ /\ tx[r] = "mined"
             /\ receipt' = [receipt EXCEPT ![r] = [receipt[r] EXCEPT !.chainTxHash = r]]
      BY <2>3 DEF AnchorDone
    <3>3. /\ [receipt[r] EXCEPT !.chainTxHash = r].commitments = receipt[r].commitments
          /\ [receipt[r] EXCEPT !.chainTxHash = r].chainTxHash = r
      BY <1>1 DEF Receipt
    <3>4. \/ receipt' = receipt
          \/ /\ tx[r] = "mined" /\ receipt'[r].chainTxHash = r
             /\ receipt'[r].commitments = receipt[r].commitments
      BY <3>2, <3>3 DEF Inv, TypeOK
    <3> QED
      BY <1>1, <1>2, <3>1, <3>4 DEF AnchorInv, AnchorOK, Anchored
  <2> QED
    BY <2>1, <2>2, <2>3
<1>4. ReceiptFrom(r, call[r].case)
  BY <1>2 DEF ReceiptFrom
<1> QED
  BY <1>1, <1>2, <1>3, <1>4, RequestAnchors

-----------------------------------------------------------------------------
(* Steps of nobody's request.                                              *)

\* CaseAnchor.anchor fills an empty entry, so that nothing anchored is lost.
LEMMA MineAnchors ==
  ASSUME Inv, AnchorInv, NEW r \in Request, Mine(r)
  PROVE  AnchorInv'
<1> DEFINE c == call[r].case
<1>1. /\ UNCHANGED <<store, sent, pc, call, event, read, locals>>
      /\ tx[r] = "pending" /\ outcome[r] # Null /\ Anchored(r)
      /\ receipt[r] \in Receipt /\ c \in Case
  BY DEF Mine, AnchorInv, AnchorOK, Anchored, Inv, TypeOK, RequestOK, StepOK, CallOK, Called,
         Arguments
<1>2. \/ /\ chain[c] = Null /\ tx'[r] = "mined"
         /\ chain' = [chain EXCEPT ![c] = receipt[r].commitments.receipt]
      \/ chain[c] # Null /\ tx'[r] = "reverted" /\ chain' = chain
  BY DEF Mine, Inv, TypeOK
<1>3. \A q \in Request \ {r} : tx'[q] = tx[q]
  BY DEF Mine, Inv, TypeOK
<1>4. receipt[r].commitments.receipt # Null
  BY <1>1, NullAssumption DEF Receipt, Commitments
<1>5. \A q \in Request : tx[q] = "mined" => tx'[q] = "mined" /\ q # r
  BY <1>1, <1>3
<1>6. \A d \in Case : chain[d] # Null => chain'[d] = chain[d]
  BY <1>1, <1>2 DEF Inv, TypeOK
<1>7. \A q \in Request : tx[q] = "mined" =>
        /\ call[q].case \in Case /\ receipt[q] \in Receipt
        /\ chain[call[q].case] = receipt[q].commitments.receipt
        /\ chain[call[q].case] # Null
  <2> SUFFICES ASSUME NEW q \in Request, tx[q] = "mined"
               PROVE  /\ call[q].case \in Case /\ receipt[q] \in Receipt
                      /\ chain[call[q].case] = receipt[q].commitments.receipt
                      /\ chain[call[q].case] # Null
    OBVIOUS
  <2>1. call[q].case \in Case /\ receipt[q] \in Receipt
    BY DEF AnchorInv, AnchorOK, Anchored, Inv, TypeOK, RequestOK, StepOK, CallOK, Called,
           Arguments
  <2>2. chain[call[q].case] = receipt[q].commitments.receipt
    BY DEF AnchorInv, AnchorOK
  <2> QED
    BY <2>1, <2>2, NullAssumption DEF Receipt, Commitments
<1>8. ASSUME NEW q \in Request PROVE AnchorOK(q)'
  <2>1. CASE q = r
    <3>1. receipt[r].chainTxHash = Null
      BY <1>1, NullAssumption DEF AnchorInv, AnchorOK
    <3> QED
      BY <1>1, <1>2, <2>1, <3>1 DEF AnchorOK, Anchored, locals, Inv, TypeOK
  <2>2. CASE q # r
    BY <1>1, <1>3, <1>6, <1>7, <2>2 DEF AnchorInv, AnchorOK, Anchored, locals
  <2> QED
    BY <2>1, <2>2
<1>9. ChainFilled'
  <2> SUFFICES ASSUME NEW d \in Case, chain'[d] # Null
               PROVE  \E q \in Request : tx'[q] = "mined" /\ call'[q].case = d
    BY DEF ChainFilled
  <2>1. chain[d] # Null \/ (d = c /\ tx'[r] = "mined")
    BY <1>1, <1>2 DEF Inv, TypeOK
  <2> QED
    BY <1>1, <1>5, <2>1 DEF AnchorInv, ChainFilled
<1>10. StoredAnchorGenuine'
  <2> SUFFICES ASSUME NEW d \in Case, store[d] # Null, store[d].receipt # Null,
                      store[d].receipt.chainTxHash # Null
               PROVE  /\ tx'[store[d].receipt.chainTxHash] = "mined"
                      /\ call'[store[d].receipt.chainTxHash].case = d
                      /\ chain'[d] = store[d].receipt.commitments.receipt
    BY <1>1 DEF StoredAnchorGenuine
  <2>1. store[d].receipt.chainTxHash \in Request
    BY DEF Inv, TypeOK, CaseRecord, Receipt
  <2>2. /\ tx[store[d].receipt.chainTxHash] = "mined"
        /\ call[store[d].receipt.chainTxHash].case = d
        /\ chain[d] = store[d].receipt.commitments.receipt
    BY DEF AnchorInv, StoredAnchorGenuine
  <2> QED
    BY <1>1, <1>5, <1>6, <1>7, <2>1, <2>2
<1> QED
  BY <1>8, <1>9, <1>10 DEF AnchorInv

\* Crashes and arrivals leave the chain, its transactions and the receipts.
LEMMA OtherStepsAnchor ==
  ASSUME Inv, AnchorInv,
         \/ \E i \in Instance : Crash(i)
         \/ \E r \in Request : ArriveSubmit(r) \/ ArriveApprove(r) \/ ArriveReject(r)
  PROVE  AnchorInv'
<1>1. /\ UNCHANGED <<store, chain, tx, event, outcome, receipt>>
      /\ \A q \in Request : Anchored(q) => Anchored(q)' /\ call'[q] = call[q]
  <2>1. ASSUME NEW i \in Instance, Crash(i)
        PROVE  /\ UNCHANGED <<store, chain, tx, event, outcome, receipt>>
               /\ \A q \in Request : Anchored(q) => Anchored(q)' /\ call'[q] = call[q]
    BY <2>1 DEF Crash, locals, Anchored
  <2>2. ASSUME NEW r \in Request, ArriveSubmit(r) \/ ArriveApprove(r) \/ ArriveReject(r)
        PROVE  /\ UNCHANGED <<store, chain, tx, event, outcome, receipt>>
               /\ \A q \in Request : Anchored(q) => Anchored(q)' /\ call'[q] = call[q]
    BY <2>2 DEF ArriveSubmit, ArriveApprove, ArriveReject, Arrive, external, locals, Anchored,
                Inv, TypeOK
  <2> QED
    BY <2>1, <2>2
<1>2. \A q \in Request : tx[q] # "none" => call'[q] = call[q]
  BY <1>1 DEF AnchorInv, AnchorOK
<1>3. \A q \in Request : AnchorOK(q)'
  BY <1>1, <1>2 DEF AnchorInv, AnchorOK
<1>4. ChainFilled'
  BY <1>1, <1>2 DEF AnchorInv, ChainFilled
<1>5. StoredAnchorGenuine'
  <2>1. \A c \in Case : store[c] # Null /\ store[c].receipt # Null =>
          store[c].receipt.chainTxHash \in Request \cup {Null}
    BY DEF Inv, TypeOK, CaseRecord, Receipt
  <2> QED
    BY <1>1, <1>2, <2>1 DEF AnchorInv, StoredAnchorGenuine
<1> QED
  BY <1>3, <1>4, <1>5 DEF AnchorInv

-----------------------------------------------------------------------------
\* Every step keeps what is said of anchoring.
LEMMA NextAnchors == Inv /\ AnchorInv /\ [Next]_vars => AnchorInv'
<1> SUFFICES ASSUME Inv, AnchorInv, [Next]_vars PROVE AnchorInv'
  OBVIOUS
<1>1. TypeOK'
  BY NextInv DEF Inv
<1>2. ASSUME NEW r \in Request, Serve(r) \/ AnchorLost(r) \/ Throw(r)
      PROVE  AnchorInv'
  BY <1>1, <1>2, PlainStepAnchors, SaveAnchors, SettlingAnchors DEF Serve
<1>3. CASE UNCHANGED vars
  <2>1. UNCHANGED <<store, chain, tx, pc, call, event, outcome, receipt>>
    BY <1>3 DEF vars, external, locals
  <2> QED
    BY <2>1 DEF AnchorInv, StoredAnchorGenuine, ChainFilled, AnchorOK, Anchored
<1> QED
  BY <1>2, <1>3, MineAnchors, OtherStepsAnchor DEF Next, Quiescent

\* AnchorInv holds throughout, given Inv.
LEMMA AnchorInvariance == Spec => []AnchorInv
<1>1. Init => AnchorInv
  BY DEF Init, AnchorInv, StoredAnchorGenuine, ChainFilled, AnchorOK
<1> QED
  BY <1>1, NextAnchors, Invariance, PTL DEF Spec

\* The hash on a stored receipt is of a mined transaction that anchored it,
\* however the wait for the transaction ended (types.ts: "not faked").
THEOREM AnchorsAreGenuine == Spec => []StoredAnchorGenuine
<1>1. AnchorInv => StoredAnchorGenuine
  BY DEF AnchorInv
<1> QED
  BY <1>1, AnchorInvariance, PTL
==============================================================================
