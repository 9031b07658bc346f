------------------------------ MODULE Artifacts ------------------------------
(***************************************************************************)
(* The data a case is made of: packages/shared/src/types.ts, the internal  *)
(* CaseRecord of packages/agent/src/caseRecord.ts, and the commitments of  *)
(* packages/shared/src/commitment.ts.                                      *)
(*                                                                         *)
(* Identifiers are random UUIDs in the code (ids.ts) and timestamps are    *)
(* read from the clock; here both are the name of the request that made    *)
(* them, which is as unique.  Texts are reduced to what the code tells     *)
(* apart: which analysis produced a message, and the amount in cents that  *)
(* a free text names, if any.                                              *)
(***************************************************************************)
EXTENDS CaseMachine, Naturals

CONSTANTS
  Case,        \* case identifiers
  Request,     \* calls of the Orchestrator's methods
  Owner,       \* anonymous owner identities (the clawback_owner cookie)
  Account,     \* a merchant and the last digits of an account with it
  Input,       \* the inputs users submit
  Null         \* null

\* SubscriptionCaseInput: "details" and "desired" are the amounts in cents
\* that extractCents finds in subscriptionDetails and desiredOutcome.
ASSUME InputAssumption ==
  Input \subseteq [account : Account, details : Nat \cup {Null}, desired : Nat \cup {Null}]

-----------------------------------------------------------------------------
(* commitment.ts: sha256 over a canonical form.  A commitment is taken to   *)
(* be injective, so it is a record that wraps what was hashed.              *)

Commit(artifact) == [sha256 |-> artifact]

Chain(previous, artifact) == Commit([previous |-> previous, artifact |-> artifact])

Hash(S) == [sha256 : S]
ChainHash(P, S) == Hash([previous : P, artifact : S])

-----------------------------------------------------------------------------
Environment == {"sandbox", "live"}

\* The text of a proposal: a chat completion, or the local fallback's template.
Message == {"chat", "template"}

Proposal == [proposalId : Request, exactMessage : Message,
             estimatedRecoveryCents : Nat \cup {Null}]

Approval == [proposalId : Request, actionCommitment : Hash(Proposal),
             approvedAt : Request, approvedBy : Owner]

Execution == [executionId : Request, succeeded : BOOLEAN, teeAttested : BOOLEAN,
              providerAddress : {"provider", Null},
              inputCommitment : Hash(Input), outputCommitment : Hash(Message)]

OutcomeType == {"cancelled", "refund_issued", "declined", "no_response"}

Outcome == [outcomeType : OutcomeType, counterpartyConfirmation : BOOLEAN,
            claimedSavingsCents : Nat, verifiedSavingsCents : Nat \cup {Null}]

\* The five links of a receipt, each chained to the one before.
CaseHash == Hash([caseId : Case, account : Account])
ActionHash == ChainHash(CaseHash,
  [proposalId : Request, exactMessage : Message,
   approvalId : Hash(Proposal), approvedAt : Request])
ExecutionHash == ChainHash(ActionHash,
  [executionId : Request, inputCommitment : Hash(Input), outputCommitment : Hash(Message),
   teeAttested : BOOLEAN, providerAddress : {"provider", Null}])
OutcomeHash == ChainHash(ExecutionHash,
  [outcomeType : OutcomeType, claimedSavingsCents : Nat,
   verifiedSavingsCents : Nat \cup {Null}])
Status == {"successful", "unsuccessful", "unverified"}
ReceiptHash == ChainHash(OutcomeHash, [receiptId : Request, status : Status])

Commitments == [case : CaseHash, action : ActionHash, execution : ExecutionHash,
                outcome : OutcomeHash, receipt : ReceiptHash]

Receipt == [receiptId : Request, caseId : Case, status : Status,
            environment : Environment, claimedSavingsCents : Nat,
            verifiedSavingsCents : Nat \cup {Null}, teeAttested : BOOLEAN,
            commitments : Commitments, approvedAt : Request,
            chainTxHash : Request \cup {Null}, storageRootHash : {"root", Null}]

CaseRecord == [ownerId : Owner, state : CaseState, input : Input,
               proposal : Proposal \cup {Null}, approval : Approval \cup {Null},
               execution : Execution \cup {Null}, outcome : Outcome \cup {Null},
               receipt : Receipt \cup {Null}, degraded : BOOLEAN]

\* null is none of the things it stands in for.
ASSUME NullAssumption ==
  /\ Null \notin Nat /\ Null \notin Request /\ Null \notin Input
  /\ Null \notin Proposal /\ Null \notin Approval /\ Null \notin Execution
  /\ Null \notin Outcome /\ Null \notin Receipt /\ Null \notin CaseRecord
  /\ Null \notin ReceiptHash /\ Null \notin Hash(Proposal)
==============================================================================
