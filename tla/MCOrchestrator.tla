--------------------------- MODULE MCOrchestrator ----------------------------
(***************************************************************************)
(* Small instances of Orchestrator: one account per answer of the provider *)
(* and amounts at the edges of the fee's arithmetic.                       *)
(***************************************************************************)
EXTENDS OrchestratorInvariants, ReceiptIntegrity, TLC

\* The accounts of the simulator's four answers.
MCAccount == {"refunds", "cancels", "declines", "silent"}

MCBucket == ("refunds" :> 59) @@ ("cancels" :> 84) @@ ("declines" :> 94) @@ ("silent" :> 95)

InputOf(account, details, desired) ==
  [account |-> account, details |-> details, desired |-> desired]

\* One input per answer; the refund is of an amount the input names.
OneInputPerAnswer ==
  { InputOf(a, Null, 1999) : a \in MCAccount }

\* Refunds of nothing, of one cent (whose fee rounds to 0), of an amount whose
\* fee is rounded, of the simulator's own amount, and of the first of two.
RefundInputs ==
  { InputOf("refunds", 0, Null), InputOf("refunds", 1, Null),
    InputOf("refunds", Null, 1999), InputOf("refunds", Null, Null),
    InputOf("refunds", 25, 1999) }

RefundOnly == { InputOf("refunds", Null, 1999) }

RefundOrSilence == { InputOf("refunds", Null, 1999), InputOf("silent", Null, 1999) }

AllInputs == OneInputPerAnswer \cup RefundInputs

RequestSymmetry == Permutations(Request)
==============================================================================
