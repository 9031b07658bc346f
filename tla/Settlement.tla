----------------------------- MODULE Settlement ------------------------------
(***************************************************************************)
(* What money follows from an outcome: the provider simulator of           *)
(* packages/providers, verifyClaimedSavings of orchestrator.ts, and fee.ts *)
(* and ledger.ts of packages/payments.                                     *)
(***************************************************************************)
EXTENDS Artifacts, Integers

\* The simulator's hash of an account, modulo 100 (sandboxProvider.ts).
CONSTANT Bucket

ASSUME BucketAssumption == Bucket \in [Account -> 0 .. 99]

\* The first amount that is not null (the ?? of the code).
Coalesce(first, second) == IF first # Null THEN first ELSE second

-----------------------------------------------------------------------------
(* SandboxSubscriptionProvider.sendAction *)

SandboxResult(input) ==
  LET bucket == Bucket[input.account]
      requested == Coalesce(input.details, input.desired)
  IN CASE bucket < 60 -> [outcomeType |-> "refund_issued", counterpartyConfirmation |-> TRUE,
                          claimedSavingsCents |-> Coalesce(requested, 999)]
       [] bucket \in 60 .. 84 -> [outcomeType |-> "cancelled",
                          counterpartyConfirmation |-> TRUE, claimedSavingsCents |-> 0]
       [] bucket \in 85 .. 94 -> [outcomeType |-> "declined",
                          counterpartyConfirmation |-> TRUE, claimedSavingsCents |-> 0]
       [] OTHER -> [outcomeType |-> "no_response", counterpartyConfirmation |-> FALSE,
                    claimedSavingsCents |-> 0]

-----------------------------------------------------------------------------
(* orchestrator.ts *)

VerifyClaimedSavings(result) ==
  IF result.claimedSavingsCents <= 0 \/ result.counterpartyConfirmation
  THEN result.claimedSavingsCents
  ELSE Null

\* The OutcomeEvidence approveAndExecute makes of a provider's result.
OutcomeOf(result) ==
  [outcomeType |-> result.outcomeType,
   counterpartyConfirmation |-> result.counterpartyConfirmation,
   claimedSavingsCents |-> result.claimedSavingsCents,
   verifiedSavingsCents |-> VerifyClaimedSavings(result)]

\* Variant: savings of nothing are charged for.
FeeIsDueIfVerified(outcome) == outcome.verifiedSavingsCents # Null

FeeIsDue(outcome) ==
  outcome.verifiedSavingsCents # Null /\ outcome.verifiedSavingsCents > 0

-----------------------------------------------------------------------------
(* fee.ts and ledger.ts *)

DEFAULT_FEE_BPS == 4000

\* Variant: basis points of a thousand.
FeeCentsOfThousand(verified) == (2 * verified * DEFAULT_FEE_BPS + 1000) \div 2000

\* Math.round: to the nearest integer, halves up.
FeeCents(verified) == (2 * verified * DEFAULT_FEE_BPS + 10000) \div 20000

ComputeFee(verified) ==
  LET fee == IF verified <= 0 THEN 0 ELSE FeeCents(verified)
  IN [verifiedSavingsCents |-> verified, feeCents |-> fee, netToUserCents |-> verified - fee]

Fee == [verifiedSavingsCents : Nat, feeCents : Nat, netToUserCents : Int]
SettlementRecord == [fee : Fee, status : {"assessed", "collected", "waived"}]

Assessed(fee) == [fee |-> fee, status |-> IF fee.feeCents = 0 THEN "waived" ELSE "assessed"]
==============================================================================
