------------------------------ MODULE Receipts -------------------------------
(***************************************************************************)
(* packages/receipts: building a receipt from the artifacts of a case, and *)
(* checking a receipt against them.                                        *)
(***************************************************************************)
EXTENDS Artifacts

(* builder.ts *)

CaseCommitment(case, input) == Commit([caseId |-> case, account |-> input.account])

ActionCommitment(previous, proposal, approval) ==
  Chain(previous, [proposalId |-> proposal.proposalId,
                   exactMessage |-> proposal.exactMessage,
                   approvalId |-> approval.actionCommitment,
                   approvedAt |-> approval.approvedAt])

ExecutionCommitment(previous, execution) ==
  Chain(previous, [executionId |-> execution.executionId,
                   inputCommitment |-> execution.inputCommitment,
                   outputCommitment |-> execution.outputCommitment,
                   teeAttested |-> execution.teeAttested,
                   providerAddress |-> execution.providerAddress])

OutcomeCommitment(previous, outcome) ==
  Chain(previous, [outcomeType |-> outcome.outcomeType,
                   claimedSavingsCents |-> outcome.claimedSavingsCents,
                   verifiedSavingsCents |-> outcome.verifiedSavingsCents])

\* Variant: the status is not committed to.
ReceiptCommitmentOfId(previous, receiptId, status) == Chain(previous, [receiptId |-> receiptId])

ReceiptCommitment(previous, receiptId, status) ==
  Chain(previous, [receiptId |-> receiptId, status |-> status])

DeriveStatus(outcome) ==
  CASE outcome.outcomeType = "no_response" -> "unverified"
    [] outcome.outcomeType = "declined"    -> "unsuccessful"
    [] OTHER                               -> "successful"

\* artifacts: anything with the fields input, proposal, approval, execution
\* and outcome; a CaseRecord has them.
BuildReceipt(receiptId, case, artifacts, environment) ==
  LET forCase == CaseCommitment(case, artifacts.input)
      forAction == ActionCommitment(forCase, artifacts.proposal, artifacts.approval)
      forExecution == ExecutionCommitment(forAction, artifacts.execution)
      forOutcome == OutcomeCommitment(forExecution, artifacts.outcome)
      status == DeriveStatus(artifacts.outcome)
  IN [receiptId |-> receiptId, caseId |-> case, status |-> status,
      environment |-> environment,
      claimedSavingsCents |-> artifacts.outcome.claimedSavingsCents,
      verifiedSavingsCents |-> artifacts.outcome.verifiedSavingsCents,
      teeAttested |-> artifacts.execution.teeAttested,
      commitments |-> [case |-> forCase, action |-> forAction,
                       execution |-> forExecution, outcome |-> forOutcome,
                       receipt |-> ReceiptCommitment(forOutcome, receiptId, status)],
      approvedAt |-> artifacts.approval.approvedAt,
      chainTxHash |-> Null, storageRootHash |-> Null]

-----------------------------------------------------------------------------
(* verifier.ts: each check has a result and says how strong it is; only the *)
(* checks that are cryptographically verifiable count towards the verdict.  *)

Check(question, result, strength) ==
  [question |-> question, result |-> result, strength |-> strength]

Checks(receipt, artifacts) ==
  LET crypto == "cryptographically_verifiable"
      forCase == CaseCommitment(receipt.caseId, artifacts.input)
      forAction == ActionCommitment(forCase, artifacts.proposal, artifacts.approval)
      forExecution == ExecutionCommitment(forAction, artifacts.execution)
      forOutcome == OutcomeCommitment(forExecution, artifacts.outcome)
      forReceipt == ReceiptCommitment(forOutcome, receipt.receiptId, receipt.status)
      corroborated == artifacts.outcome.verifiedSavingsCents # Null
      anchored == receipt.chainTxHash # Null
      ifTrue(fact, strength) == IF fact THEN strength ELSE "not_independently_verifiable"
  IN { Check("case", forCase = receipt.commitments.case, crypto),
       Check("approved", /\ artifacts.approval.approvedAt # Null
                         /\ artifacts.approval.actionCommitment # Null, crypto),
       Check("action", forAction = receipt.commitments.action, crypto),
       Check("execution", forExecution = receipt.commitments.execution, crypto),
       Check("attested", receipt.teeAttested, ifTrue(receipt.teeAttested, crypto)),
       Check("outcome", forOutcome = receipt.commitments.outcome, crypto),
       Check("receipt", forReceipt = receipt.commitments.receipt, crypto),
       Check("savings", corroborated, ifTrue(corroborated, "trusted_claim")),
       Check("anchored", anchored, ifTrue(anchored, crypto)),
       Check("environment", receipt.environment \in Environment, crypto) }

AllCryptographicChecksPassed(receipt, artifacts) ==
  \A check \in Checks(receipt, artifacts) :
    check.strength = "cryptographically_verifiable" => check.result
==============================================================================
