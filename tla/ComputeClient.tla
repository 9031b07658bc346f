---------------------------- MODULE ComputeClient ----------------------------
(***************************************************************************)
(* ComputeClient.analyze (packages/compute/src/computeClient.ts) and the   *)
(* broker calls it makes through attestedClient.ts: what Orchestrator      *)
(* takes as one step, Analyze.                                             *)
(*                                                                         *)
(* Calls of analyze interleave at their awaits.  They share the operator's *)
(* 0G Compute ledger and the accounts it keeps with providers; the list of *)
(* providers may change at any time.  Every await may throw, with its      *)
(* effect made or not, and analyze catches all of it.                      *)
(***************************************************************************)
EXTENDS Integers

CONSTANTS
  Null,
  Call,         \* calls of analyze
  Provider,
  Preferred,    \* ZG_COMPUTE_PROVIDER_ADDRESS, or Null
  Configured,   \* is ZG_COMPUTE_PRIVATE_KEY set?
  TopUp,        \* DEFAULT_TOPUP_NEURON
  Price,        \* of a chat
  Funds         \* initial balances

ASSUME ComputeAssumption ==
  /\ Null \notin Provider /\ Null \notin BOOLEAN
  /\ Preferred \in Provider \cup {Null}
  /\ Configured \in BOOLEAN
  /\ TopUp \in Nat \ {0} /\ Price \in Nat \ {0} /\ Funds \subseteq Nat

VARIABLES
  offers,     \* [Provider -> what it now lists: a service, with a verifiability or without]
  balance,    \* of the wallet's ledger; Null if there is none
  account,    \* [Provider -> balance of the wallet's account with it]
  genuine,    \* the calls that a provider answered from its enclave
  pc,         \* [Call -> what the call waits for]
  provider,   \* [Call -> the chosen provider]
  chatId,     \* [Call -> does the provider's answer have an id?]
  result      \* [Call -> AnalysisResult or Null]

world == <<offers, balance, account, genuine>>
vars == <<world, pc, provider, chatId, result>>

Offer == {"verifiable", "plain", "none"}

Awaiting == {"list", "ledger", "transfer", "chat", "process"}

Attestation == [providerAddress : Provider, isValid : BOOLEAN]

Result == [message : {"chat", "template"}, teeAttested : BOOLEAN,
           attestation : Attestation \cup {Null},
           providerAddress : Provider \cup {Null}, degraded : BOOLEAN]

ASSUME ResultAssumption == Null \notin Result

Init ==
  /\ offers \in [Provider -> Offer]
  /\ balance \in Funds \cup {Null}
  /\ account \in [Provider -> Funds]
  /\ genuine = {}
  /\ pc = [r \in Call |-> "idle"]
  /\ provider = [r \in Call |-> Null]
  /\ chatId = [r \in Call |-> FALSE]
  /\ result = [r \in Call |-> Null]

-----------------------------------------------------------------------------
\* buildUnattestedResult, of the template.
Unattested ==
  [message |-> "template", teeAttested |-> FALSE, attestation |-> Null,
   providerAddress |-> Null, degraded |-> TRUE]

\* Variant: the error path fills in what it knows of the provider.
FallBackNaming(r) ==
  /\ pc' = [pc EXCEPT ![r] = "done"]
  /\ result' = [result EXCEPT ![r] = [Unattested EXCEPT !.providerAddress = provider[r]]]

\* Variant: analyze lets the error out.
FallBackThrowing(r) ==
  /\ pc' = [pc EXCEPT ![r] = "done"]
  /\ UNCHANGED result

\* No configuration, or the catch of analyze.
FallBack(r) ==
  /\ pc' = [pc EXCEPT ![r] = "done"]
  /\ result' = [result EXCEPT ![r] = Unattested]

Goto(r, step) ==
  /\ pc' = [pc EXCEPT ![r] = step]
  /\ UNCHANGED result

\* The awaited call returns, or throws although its effect was made.
Answered(r, step) == Goto(r, step) \/ FallBack(r)

Analyze(r) ==
  /\ pc[r] = "idle"
  /\ IF Configured THEN Goto(r, "list") ELSE FallBack(r)
  /\ UNCHANGED <<world, provider, chatId>>

\* Any of the awaited calls throws, without effect.
Throws(r) ==
  /\ pc[r] \in Awaiting
  /\ FallBack(r)
  /\ UNCHANGED <<world, provider, chatId>>

Verifiable == { p \in Provider : offers[p] = "verifiable" }

\* createBroker and selectProvider: the preferred provider if it is among those
\* whose service has a verifiability, else the first of them; without one it
\* throws.
SelectProvider(r) ==
  /\ pc[r] = "list"
  /\ \E p \in Verifiable :
       /\ Preferred \in Verifiable => p = Preferred
       /\ provider' = [provider EXCEPT ![r] = p]
  /\ Goto(r, "ledger")
  /\ UNCHANGED <<world, chatId>>

\* ensureFunded: getLedger throws if there is none.
GetLedger(r) ==
  /\ pc[r] = "ledger" /\ balance # Null
  /\ Goto(r, "transfer")
  /\ UNCHANGED <<world, provider, chatId>>

\* ensureFunded: transferFund throws if the ledger's balance is too low.
TransferFund(r) ==
  /\ pc[r] = "transfer" /\ balance >= TopUp
  /\ balance' = balance - TopUp
  /\ account' = [account EXCEPT ![provider[r]] = @ + TopUp]
  /\ Answered(r, "chat")
  /\ UNCHANGED <<offers, genuine, provider, chatId>>

\* getServiceMetadata, getRequestHeaders and the chat, which the provider
\* serves if the account can pay, from an enclave only if it offers one; its
\* answer may lack an id.
Chat(r) ==
  /\ pc[r] = "chat" /\ account[provider[r]] >= Price
  /\ account' = [account EXCEPT ![provider[r]] = @ - Price]
  /\ \/ UNCHANGED genuine
     \/ provider[r] \in Verifiable /\ genuine' = genuine \cup {r}
  /\ \E id \in BOOLEAN : chatId' = [chatId EXCEPT ![r] = id]
  /\ Answered(r, "process")
  /\ UNCHANGED <<offers, balance, provider>>

\* Variant: no verdict passes for a good one.
AttestedUnlessRefuted(isValid) == isValid # FALSE

\* result.isValid === true
Attested(isValid) == isValid = TRUE

\* processResponse checks an answer that has an id; null says it could not.
Verdict(r) == {Null} \cup IF chatId[r] THEN {(r \in genuine)} ELSE {}

ProcessResponse(r) ==
  /\ pc[r] = "process"
  /\ \E isValid \in Verdict(r) :
       result' = [result EXCEPT ![r] =
         [message |-> "chat", teeAttested |-> Attested(isValid),
          attestation |-> [providerAddress |-> provider[r], isValid |-> Attested(isValid)],
          providerAddress |-> provider[r], degraded |-> ~Attested(isValid)]]
  /\ pc' = [pc EXCEPT ![r] = "done"]
  /\ UNCHANGED <<world, provider, chatId>>

\* Providers come, go, and change what they offer.
Relist ==
  /\ offers' \in [Provider -> Offer]
  /\ UNCHANGED <<balance, account, genuine, pc, provider, chatId, result>>

-----------------------------------------------------------------------------
Step(r) ==
  \/ Throws(r) \/ SelectProvider(r) \/ GetLedger(r) \/ TransferFund(r) \/ Chat(r)
  \/ ProcessResponse(r)

Next == Relist \/ \E r \in Call : Analyze(r) \/ Step(r)

Spec == Init /\ [][Next]_vars

\* Every awaited call is completed, with an answer or an error.
FairSpec == Spec /\ \A r \in Call : WF_vars(Step(r))

-----------------------------------------------------------------------------
TypeOK ==
  /\ offers \in [Provider -> Offer]
  /\ balance \in Nat \cup {Null}
  /\ account \in [Provider -> Nat]
  /\ genuine \in SUBSET Call
  /\ pc \in [Call -> Awaiting \cup {"idle", "done"}]
  /\ provider \in [Call -> Provider \cup {Null}]
  /\ chatId \in [Call -> BOOLEAN]
  /\ result \in [Call -> Result \cup {Null}]

\* What is called TEE-attested was answered from an enclave, and the template
\* never is (attestedClient.ts: null is "never coerced to true").
AttestedIsGenuine ==
  \A r \in Call : result[r] # Null /\ result[r].teeAttested => r \in genuine

\* The three results that Orchestrator's Analyze chooses among.
ResultOf(a, p) ==
  IF a = "fallback" THEN Unattested
  ELSE [message |-> "chat", teeAttested |-> a = "attested",
        attestation |-> [providerAddress |-> p, isValid |-> a = "attested"],
        providerAddress |-> p, degraded |-> a # "attested"]

\* analyze is the step that Orchestrator takes it for.
ImplementsAnalyze ==
  \A r \in Call : result[r] # Null =>
    \E a \in IF Configured THEN {"attested", "unverified", "fallback"} ELSE {"fallback"} :
      result[r] = ResultOf(a, provider[r])

\* How far a call has come.
Passed(r) ==
  CASE pc[r] = "idle" -> 0 [] pc[r] = "list" -> 1 [] pc[r] = "ledger" -> 2
    [] pc[r] = "transfer" -> 3 [] pc[r] = "chat" -> 4 [] pc[r] = "process" -> 5
    [] OTHER -> 6

\* Each of its steps takes a call on, those of others and of the world leave it
\* where it is, and it does not end without a result (computeClient.ts: "fail closed
\* to the honest local fallback rather than throwing").
AnalysesAdvance ==
  [][\A r \in Call :
       /\ Passed(r) <= Passed(r)'
       /\ Analyze(r) \/ Step(r) => Passed(r) < Passed(r)'
       /\ pc'[r] = "done" => result'[r] # Null]_vars

\* analyze returns a result, whatever fails: it throws nothing.
EveryAnalysisReturns == \A r \in Call : pc[r] # "idle" ~> result[r] # Null

\* attestedClient.ts of the top-up: "used only when a provider sub-account is
\* under-funded".
TopUpOnlyIfUnderFunded ==
  [][\A p \in Provider : account'[p] > account[p] => account[p] < Price]_vars
==============================================================================
