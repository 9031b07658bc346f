----------------------------- MODULE ReceiptCard -----------------------------
(***************************************************************************)
(* What the page of a success shows of its receipt: the card of            *)
(* apps/web/src/app/cases/[caseId]/ReceiptCard.tsx, drawn from the receipt *)
(* alone, and under it the verifier's report, drawn by                     *)
(* components/VerificationCheck.tsx.  Colours and texts are reduced to     *)
(* what is claimed.                                                        *)
(***************************************************************************)
EXTENDS Receipts

\* What the card makes of an amount in the sandbox is a fixed text.
Corroborated(receipt) ==
  CASE receipt.environment = "sandbox"       -> "Not available in sandbox"
    [] receipt.verifiedSavingsCents = Null   -> "Not corroborated"
    [] OTHER                                 -> receipt.verifiedSavingsCents

\* The tiers, the amounts and the pills of the card.  The headline, "Receipt
\* integrity verified.", and its first tier are fixed texts.
Card(receipt) ==
  [ execution |-> IF receipt.teeAttested THEN "Attested" ELSE "Not attested",
    financial |-> IF receipt.environment = "sandbox" THEN "Simulated" ELSE "Reported",
    claimed |-> receipt.claimedSavingsCents,
    corroborated |-> Corroborated(receipt),
    storage |-> IF receipt.storageRootHash # Null THEN "Uploaded" ELSE "Not configured",
    chain |-> IF receipt.chainTxHash # Null THEN "Anchored" ELSE "Not configured" ]

\* What the card lists as proven; the other column's three items are fixed.
Proven(receipt) ==
  {"consistent", "authorized"}
    \cup (IF receipt.teeAttested THEN {"attested"} ELSE {})
    \cup (IF receipt.chainTxHash # Null THEN {"anchored"} ELSE {})

\* Variant: the badge is derived from the result alone.
BadgeForResult(check) == IF check.result THEN "Verified" ELSE "Failed"

BadgeFor(check) ==
  CASE check.strength = "not_independently_verifiable" -> "Not verifiable"
    [] check.strength = "trusted_claim"                -> "Trusted claim"
    [] OTHER -> IF check.result THEN "Verified" ELSE "Failed"

\* The rows of the report: a badge for each question.
Rows(checks) == { <<check.question, BadgeFor(check)>> : check \in checks }

\* The card of a receipt tells what the report under it does, which the verifier
\* makes of the record it reads, and what that record says: what was attested and
\* anchored, what savings are claimed, and that savings are a trusted claim at best,
\* if the receipt calls an amount verified (VerificationCheck.tsx: "a trusted claim
\* must never look like cryptographic proof, and an unconfigured check must never
\* look like a failure").  No link takes in the receipt's own flag and amounts.  In
\* the sandbox the accounts part in one thing: the card says "Not available" of the
\* amount that the report calls corroborated.
CardAgrees(receipt, record) ==
  LET card == Card(receipt) rows == Rows(Checks(record.receipt, record))
  IN /\ card.execution = "Attested" <=> <<"attested", "Verified">> \in rows
     /\ card.execution = "Attested" <=> record.execution.teeAttested
     /\ card.chain = "Anchored" <=> <<"anchored", "Verified">> \in rows
     /\ "attested" \in Proven(receipt) <=> <<"attested", "Verified">> \in rows
     /\ "anchored" \in Proven(receipt) <=> <<"anchored", "Verified">> \in rows
     /\ card.claimed = record.outcome.claimedSavingsCents
     /\ receipt.verifiedSavingsCents # Null <=> <<"savings", "Trusted claim">> \in rows
     /\ <<"savings", "Verified">> \notin rows
==============================================================================
