-------------------------- MODULE ReceiptIntegrity ---------------------------
(***************************************************************************)
(* What the receipts that Orchestrator stores are worth: the page's two    *)
(* accounts of one agree, and a thing that is replaced in a receipt, or in *)
(* an artifact stored beside it, is noticed exactly if a link of the chain *)
(* of commitments takes it in.                                             *)
(***************************************************************************)
EXTENDS Orchestrator, ReceiptCard

Succeeded == { c \in Case : store[c] # Null /\ store[c].state = "VERIFIED_SUCCESS" }

\* What the page of a success claims of its receipt is what the verifier reports
\* and what the artifacts on record say.
CardTellsReport ==
  \A c \in Succeeded : CardAgrees(store[c].receipt, store[c])

\* A receipt, with one of the things replaced that it says of itself beside its
\* links: buildReceipt fills them in, and no link takes them in.
OwnClaims(stored) ==
  UNION {
    { [stored EXCEPT !.claimedSavingsCents = @ + 1] },
    { [stored EXCEPT !.verifiedSavingsCents = x] : x \in {0, Null} },
    { [stored EXCEPT !.teeAttested = x] : x \in BOOLEAN },
    { [stored EXCEPT !.environment = x] : x \in Environment },
    { [stored EXCEPT !.approvedAt = x] : x \in Request },
    { [stored EXCEPT !.chainTxHash = x] : x \in Request \cup {Null} },
    { [stored EXCEPT !.storageRootHash = x] : x \in {"root", Null} } }

\* A case, with one of the things replaced that a link of its receipt takes in, or
\* one of the links.
Linked(case) ==
  UNION {
    { [case EXCEPT !.input.account = x] : x \in Account },
    { [case EXCEPT !.proposal.proposalId = x] : x \in Request },
    { [case EXCEPT !.proposal.exactMessage = x] : x \in Message },
    { [case EXCEPT !.approval.approvedAt = x] : x \in Request },
    { [case EXCEPT !.approval.actionCommitment = Commit([case.proposal EXCEPT !.exactMessage = x])]
        : x \in Message },
    { [case EXCEPT !.execution.executionId = x] : x \in Request },
    { [case EXCEPT !.execution.outputCommitment = Commit(x)] : x \in Message },
    { [case EXCEPT !.execution.teeAttested = x] : x \in BOOLEAN },
    { [case EXCEPT !.execution.providerAddress = x] : x \in {"provider", Null} },
    { [case EXCEPT !.outcome.outcomeType = x] : x \in OutcomeType },
    { [case EXCEPT !.outcome.claimedSavingsCents = @ + 1] },
    { [case EXCEPT !.outcome.verifiedSavingsCents = Null] },
    { [case EXCEPT !.receipt.receiptId = x] : x \in Request },
    { [case EXCEPT !.receipt.caseId = x] : x \in Case },
    { [case EXCEPT !.receipt.status = x] : x \in Status },
    { [case EXCEPT !.receipt.commitments[link] = Commit(x)] :
        link \in {"case", "action", "execution", "outcome", "receipt"}, x \in Request } }

\* A case, with one of the things replaced that no link takes in.
Unlinked(case) ==
  UNION {
    { [case EXCEPT !.receipt = x] : x \in OwnClaims(case.receipt) },
    { [case EXCEPT !.input.details = x] : x \in {0, Null} },
    { [case EXCEPT !.input.desired = x] : x \in {0, Null} },
    { [case EXCEPT !.proposal.estimatedRecoveryCents = x] : x \in {0, Null} },
    { [case EXCEPT !.approval.proposalId = x] : x \in Request },
    { [case EXCEPT !.approval.approvedBy = x] : x \in Owner },
    { [case EXCEPT !.execution.succeeded = x] : x \in BOOLEAN },
    { [case EXCEPT !.outcome.counterpartyConfirmation = x] : x \in BOOLEAN } }

Verifies(case) == AllCryptographicChecksPassed(case.receipt, case)

\* Of the things stored with a success the verifier notices the replacement of
\* those that a link takes in, the last link's status and the links themselves
\* included (verifier.ts: "this is what catches a forged status field"), and of no
\* others: the amounts, the flag of attestation, the environment and the anchor
\* that the receipt names are its own word.
NoticedIffLinked ==
  \A c \in Succeeded :
    /\ \A altered \in Linked(store[c]) \ {store[c]} : ~Verifies(altered)
    /\ \A altered \in Unlinked(store[c]) : Verifies(altered)

\* src/README.md of the verifier: "it never trusts the receipt object's own claims
\* about itself".
OwnClaimsAreNotTrusted ==
  \A c \in Succeeded : \A claiming \in OwnClaims(store[c].receipt) \ {store[c].receipt} :
    ~AllCryptographicChecksPassed(claiming, store[c])
==============================================================================
