----------------------------- MODULE SerialProofs ------------------------------
(***************************************************************************)
(* Proofs about Orchestrator for requests on one case that do not overlap, *)
(* whatever stops or fails: a message is sent once, after an approval and  *)
(* never after a rejection; what the record, the receipt, the chain and    *)
(* the ledger say of a case agree; and the promise of CaseLifecycle is     *)
(* kept.                                                                   *)
(***************************************************************************)
EXTENDS OrchestratorProofs, ReceiptIntegrity

-----------------------------------------------------------------------------
(* Verification of a receipt.                                              *)

\* The checks that count, one by one.
LEMMA Verdict ==
  ASSUME NEW x, NEW a, x.teeAttested \in BOOLEAN, x.environment \in Environment
  PROVE  LET forCase == CaseCommitment(x.caseId, a.input)
             forAction == ActionCommitment(forCase, a.proposal, a.approval)
             forExecution == ExecutionCommitment(forAction, a.execution)
             forOutcome == OutcomeCommitment(forExecution, a.outcome)
         IN AllCryptographicChecksPassed(x, a) <=>
              /\ a.approval.approvedAt # Null /\ a.approval.actionCommitment # Null
              /\ forCase = x.commitments.case
              /\ forAction = x.commitments.action
              /\ forExecution = x.commitments.execution
              /\ forOutcome = x.commitments.outcome
              /\ ReceiptCommitment(forOutcome, x.receiptId, x.status) = x.commitments.receipt
<1> DEFINE crypto == "cryptographically_verifiable"
           forCase == CaseCommitment(x.caseId, a.input)
           forAction == ActionCommitment(forCase, a.proposal, a.approval)
           forExecution == ExecutionCommitment(forAction, a.execution)
           forOutcome == OutcomeCommitment(forExecution, a.outcome)
           forReceipt == ReceiptCommitment(forOutcome, x.receiptId, x.status)
           corroborated == a.outcome.verifiedSavingsCents # Null
           anchored == x.chainTxHash # Null
           ifTrue(fact, strength) == IF fact THEN strength ELSE "not_independently_verifiable"
           approved == a.approval.approvedAt # Null /\ a.approval.actionCommitment # Null
           counts(check) == check.strength = crypto => check.result
<1> HIDE DEF forCase, forAction, forExecution, forOutcome, forReceipt, corroborated, anchored,
             ifTrue, approved, counts, crypto
<1>1. Checks(x, a) =
        { Check("case", forCase = x.commitments.case, crypto),
          Check("approved", approved, crypto),
          Check("action", forAction = x.commitments.action, crypto),
          Check("execution", forExecution = x.commitments.execution, crypto),
          Check("attested", x.teeAttested, ifTrue(x.teeAttested, crypto)),
          Check("outcome", forOutcome = x.commitments.outcome, crypto),
          Check("receipt", forReceipt = x.commitments.receipt, crypto),
          Check("savings", corroborated, ifTrue(corroborated, "trusted_claim")),
          Check("anchored", anchored, ifTrue(anchored, crypto)),
          Check("environment", x.environment \in Environment, crypto) }
  BY DEF Checks, forCase, forAction, forExecution, forOutcome, forReceipt, corroborated, anchored,
         ifTrue, approved, crypto
<1>2. ASSUME NEW question, NEW result
      PROVE  counts(Check(question, result, crypto)) <=> result
  BY <1>2 DEF counts, Check, crypto
<1>3. ASSUME NEW question, NEW result
      PROVE  /\ counts(Check(question, result, ifTrue(result, crypto)))
             /\ counts(Check(question, result, ifTrue(result, "trusted_claim")))
  BY <1>3 DEF counts, Check, crypto, ifTrue
<1>4. AllCryptographicChecksPassed(x, a) <=> \A check \in Checks(x, a) : counts(check)
  BY DEF AllCryptographicChecksPassed, counts, crypto
<1>5. AllCryptographicChecksPassed(x, a) <=>
        /\ counts(Check("case", forCase = x.commitments.case, crypto))
        /\ counts(Check("approved", approved, crypto))
        /\ counts(Check("action", forAction = x.commitments.action, crypto))
        /\ counts(Check("execution", forExecution = x.commitments.execution, crypto))
        /\ counts(Check("attested", x.teeAttested, ifTrue(x.teeAttested, crypto)))
        /\ counts(Check("outcome", forOutcome = x.commitments.outcome, crypto))
        /\ counts(Check("receipt", forReceipt = x.commitments.receipt, crypto))
        /\ counts(Check("savings", corroborated, ifTrue(corroborated, "trusted_claim")))
        /\ counts(Check("anchored", anchored, ifTrue(anchored, crypto)))
        /\ counts(Check("environment", x.environment \in Environment, crypto))
  BY <1>1, <1>4
<1> QED
  BY <1>2, <1>3, <1>5 DEF forCase, forAction, forExecution, forOutcome, forReceipt, approved

\* The facts of a case that its receipt commits to.
SameFacts(x, a, y, b) ==
  /\ x.caseId = y.caseId /\ x.receiptId = y.receiptId /\ x.status = y.status
  /\ a.input.account = b.input.account
  /\ a.proposal.proposalId = b.proposal.proposalId
  /\ a.proposal.exactMessage = b.proposal.exactMessage
  /\ a.approval.actionCommitment = b.approval.actionCommitment
  /\ a.approval.approvedAt = b.approval.approvedAt
  /\ a.execution.executionId = b.execution.executionId
  /\ a.execution.inputCommitment = b.execution.inputCommitment
  /\ a.execution.outputCommitment = b.execution.outputCommitment
  /\ a.execution.teeAttested = b.execution.teeAttested
  /\ a.execution.providerAddress = b.execution.providerAddress
  /\ a.outcome.outcomeType = b.outcome.outcomeType
  /\ a.outcome.claimedSavingsCents = b.outcome.claimedSavingsCents
  /\ a.outcome.verifiedSavingsCents = b.outcome.verifiedSavingsCents

\* The verdict rests on the links of a receipt and on the facts they take in.
LEMMA SameFactsVerdict ==
  ASSUME NEW x, NEW y, NEW a, NEW b, AllCryptographicChecksPassed(x, a),
         x.teeAttested \in BOOLEAN, x.environment \in Environment,
         y.teeAttested \in BOOLEAN, y.environment \in Environment,
         SameFacts(x, a, y, b), y.commitments = x.commitments
  PROVE  AllCryptographicChecksPassed(y, b)
<1> DEFINE caseC(z, d) == CaseCommitment(z.caseId, d.input)
           actionC(z, d) == ActionCommitment(caseC(z, d), d.proposal, d.approval)
           executionC(z, d) == ExecutionCommitment(actionC(z, d), d.execution)
           outcomeC(z, d) == OutcomeCommitment(executionC(z, d), d.outcome)
<1>1. caseC(x, a) = caseC(y, b)
  BY DEF SameFacts, CaseCommitment
<1>2. actionC(x, a) = actionC(y, b)
  BY <1>1 DEF SameFacts, ActionCommitment
<1>3. executionC(x, a) = executionC(y, b)
  BY <1>2 DEF SameFacts, ExecutionCommitment
<1>4. outcomeC(x, a) = outcomeC(y, b)
  BY <1>3 DEF SameFacts, OutcomeCommitment
<1> QED
  BY <1>1, <1>2, <1>3, <1>4, Verdict DEF SameFacts

\* So it is the same of the same artifacts, wherever the receipt is stored.
LEMMA SameVerdict ==
  ASSUME NEW x, NEW y, NEW a, NEW b, AllCryptographicChecksPassed(x, a),
         x.teeAttested \in BOOLEAN, x.environment \in Environment,
         y.teeAttested \in BOOLEAN, y.environment \in Environment,
         y.caseId = x.caseId, y.receiptId = x.receiptId, y.status = x.status,
         y.commitments = x.commitments,
         b.input = a.input, b.proposal = a.proposal, b.approval = a.approval,
         b.execution = a.execution, b.outcome = a.outcome
  PROVE  AllCryptographicChecksPassed(y, b)
BY SameFactsVerdict DEF SameFacts

\* A receipt passes against the record it was built from.
LEMMA BuiltVerifies ==
  ASSUME NEW id \in Request, NEW c \in Case, NEW record \in CaseRecord,
         record.proposal \in Proposal, record.approval \in Approval,
         record.execution \in Execution, record.outcome \in Outcome
  PROVE  AllCryptographicChecksPassed(BuildReceipt(id, c, record, "sandbox"), record)
<1> DEFINE x == BuildReceipt(id, c, record, "sandbox")
<1>1. x.teeAttested \in BOOLEAN /\ x.environment \in Environment
  BY DEF BuildReceipt, Execution, Environment
<1>2. record.approval.approvedAt # Null /\ record.approval.actionCommitment # Null
  BY NullAssumption DEF Approval
<1>3. LET forCase == CaseCommitment(c, record.input)
          forAction == ActionCommitment(forCase, record.proposal, record.approval)
          forExecution == ExecutionCommitment(forAction, record.execution)
          forOutcome == OutcomeCommitment(forExecution, record.outcome)
      IN /\ x.caseId = c
         /\ x.commitments.case = forCase
         /\ x.commitments.action = forAction
         /\ x.commitments.execution = forExecution
         /\ x.commitments.outcome = forOutcome
         /\ x.commitments.receipt = ReceiptCommitment(forOutcome, x.receiptId, x.status)
  BY DEF BuildReceipt
<1> HIDE DEF x
<1> QED
  BY <1>1, <1>2, <1>3, Verdict DEF x

\* A commitment and a link of the chain tell what was hashed.
LEMMA Injective ==
  /\ \A a, b : Commit(a) = Commit(b) => a = b
  /\ \A p, q, a, b : Chain(p, a) = Chain(q, b) => p = q /\ a = b
<1>1. \A a, b : Commit(a) = Commit(b) => a = b
  <2> SUFFICES ASSUME NEW a, NEW b, Commit(a) = Commit(b) PROVE a = b
    OBVIOUS
  <2>1. Commit(a).sha256 = a /\ Commit(b).sha256 = b
    BY DEF Commit
  <2> QED
    BY <2>1
<1>2. ASSUME NEW p, NEW q, NEW a, NEW b, Chain(p, a) = Chain(q, b) PROVE p = q /\ a = b
  <2> DEFINE u == [previous |-> p, artifact |-> a]
             v == [previous |-> q, artifact |-> b]
  <2>1. Commit(u) = Commit(v)
    BY <1>2 DEF Chain
  <2>2. u = v
    BY <1>1, <2>1
  <2>3. u.previous = p /\ u.artifact = a /\ v.previous = q /\ v.artifact = b
    OBVIOUS
  <2> QED
    BY <2>2, <2>3
<1> QED
  BY <1>1, <1>2

\* Two receipts of a case with the last commitment in common pass against the
\* same facts only: the one value that CaseAnchor holds fixes them all.
LEMMA CommitmentBinds ==
  ASSUME NEW x, NEW y, NEW a, NEW b,
         AllCryptographicChecksPassed(x, a), AllCryptographicChecksPassed(y, b),
         x.teeAttested \in BOOLEAN, x.environment \in Environment,
         y.teeAttested \in BOOLEAN, y.environment \in Environment,
         x.commitments.receipt = y.commitments.receipt
  PROVE  SameFacts(x, a, y, b)
<1> DEFINE caseC(z, d) == CaseCommitment(z.caseId, d.input)
           actionC(z, d) == ActionCommitment(caseC(z, d), d.proposal, d.approval)
           executionC(z, d) == ExecutionCommitment(actionC(z, d), d.execution)
           outcomeC(z, d) == OutcomeCommitment(executionC(z, d), d.outcome)
           finalC(z, d) == ReceiptCommitment(outcomeC(z, d), z.receiptId, z.status)
<1>1. finalC(x, a) = x.commitments.receipt /\ finalC(y, b) = y.commitments.receipt
  BY Verdict
<1>2. outcomeC(x, a) = outcomeC(y, b) /\ x.receiptId = y.receiptId /\ x.status = y.status
  <2> HIDE DEF outcomeC
  <2> DEFINE u == [receiptId |-> x.receiptId, status |-> x.status]
             v == [receiptId |-> y.receiptId, status |-> y.status]
  <2>1. Chain(outcomeC(x, a), u) = Chain(outcomeC(y, b), v)
    BY <1>1 DEF ReceiptCommitment
  <2>2. outcomeC(x, a) = outcomeC(y, b) /\ u = v
    BY <2>1, Injective
  <2>3. u.receiptId = v.receiptId /\ u.status = v.status
    BY <2>2
  <2> QED
    BY <2>2, <2>3
<1>3. /\ executionC(x, a) = executionC(y, b)
      /\ a.outcome.outcomeType = b.outcome.outcomeType
      /\ a.outcome.claimedSavingsCents = b.outcome.claimedSavingsCents
      /\ a.outcome.verifiedSavingsCents = b.outcome.verifiedSavingsCents
  <2> HIDE DEF executionC
  <2> DEFINE fact(d) == [outcomeType |-> d.outcome.outcomeType,
                         claimedSavingsCents |-> d.outcome.claimedSavingsCents,
                         verifiedSavingsCents |-> d.outcome.verifiedSavingsCents]
  <2>1. Chain(executionC(x, a), fact(a)) = Chain(executionC(y, b), fact(b))
    BY <1>2 DEF OutcomeCommitment
  <2>2. executionC(x, a) = executionC(y, b) /\ fact(a) = fact(b)
    BY <2>1, Injective
  <2>3. /\ fact(a).outcomeType = fact(b).outcomeType
        /\ fact(a).claimedSavingsCents = fact(b).claimedSavingsCents
        /\ fact(a).verifiedSavingsCents = fact(b).verifiedSavingsCents
    BY <2>2
  <2> QED
    BY <2>2, <2>3
<1>4. /\ actionC(x, a) = actionC(y, b)
      /\ a.execution.executionId = b.execution.executionId
      /\ a.execution.inputCommitment = b.execution.inputCommitment
      /\ a.execution.outputCommitment = b.execution.outputCommitment
      /\ a.execution.teeAttested = b.execution.teeAttested
      /\ a.execution.providerAddress = b.execution.providerAddress
  <2> HIDE DEF actionC
  <2> DEFINE fact(d) == [executionId |-> d.execution.executionId,
                         inputCommitment |-> d.execution.inputCommitment,
                         outputCommitment |-> d.execution.outputCommitment,
                         teeAttested |-> d.execution.teeAttested,
                         providerAddress |-> d.execution.providerAddress]
  <2>1. Chain(actionC(x, a), fact(a)) = Chain(actionC(y, b), fact(b))
    BY <1>3 DEF ExecutionCommitment
  <2>2. actionC(x, a) = actionC(y, b) /\ fact(a) = fact(b)
    BY <2>1, Injective
  <2>3. /\ fact(a).executionId = fact(b).executionId
        /\ fact(a).inputCommitment = fact(b).inputCommitment
        /\ fact(a).outputCommitment = fact(b).outputCommitment
        /\ fact(a).teeAttested = fact(b).teeAttested
        /\ fact(a).providerAddress = fact(b).providerAddress
    BY <2>2
  <2> QED
    BY <2>2, <2>3
<1>5. /\ caseC(x, a) = caseC(y, b)
      /\ a.proposal.proposalId = b.proposal.proposalId
      /\ a.proposal.exactMessage = b.proposal.exactMessage
      /\ a.approval.actionCommitment = b.approval.actionCommitment
      /\ a.approval.approvedAt = b.approval.approvedAt
  <2> HIDE DEF caseC
  <2> DEFINE fact(d) == [proposalId |-> d.proposal.proposalId,
                         exactMessage |-> d.proposal.exactMessage,
                         approvalId |-> d.approval.actionCommitment,
                         approvedAt |-> d.approval.approvedAt]
  <2>1. Chain(caseC(x, a), fact(a)) = Chain(caseC(y, b), fact(b))
    BY <1>4 DEF ActionCommitment
  <2>2. caseC(x, a) = caseC(y, b) /\ fact(a) = fact(b)
    BY <2>1, Injective
  <2>3. /\ fact(a).proposalId = fact(b).proposalId
        /\ fact(a).exactMessage = fact(b).exactMessage
        /\ fact(a).approvalId = fact(b).approvalId
        /\ fact(a).approvedAt = fact(b).approvedAt
    BY <2>2
  <2> QED
    BY <2>2, <2>3
<1>6. x.caseId = y.caseId /\ a.input.account = b.input.account
  <2> DEFINE fact(z, d) == [caseId |-> z.caseId, account |-> d.input.account]
  <2>1. Commit(fact(x, a)) = Commit(fact(y, b))
    BY <1>5 DEF CaseCommitment
  <2>2. fact(x, a) = fact(y, b)
    BY <2>1, Injective
  <2>3. fact(x, a).caseId = fact(y, b).caseId /\ fact(x, a).account = fact(y, b).account
    BY <2>2
  <2> QED
    BY <2>3
<1> QED
  BY <1>2, <1>3, <1>4, <1>5, <1>6 DEF SameFacts

-----------------------------------------------------------------------------
(* A step of one request.                                                  *)

\* A step of request r touches r's own case only.
OwnStep(r) ==
  /\ StepOf(r)
  /\ \A i \in Instance, c \in Case \ {call[r].case} : ledger'[i][c] = ledger[i][c]

\* Such a step keeps AloneInv if it keeps what that says of r and of r's case.
LEMMA Frame ==
  ASSUME Inv, AloneInv, NEW r \in Request, OwnStep(r), AloneOK(r)', CaseOK(call[r].case)'
  PROVE  AloneInv'
<1>1. /\ StepOf(r) /\ InFlight(r) /\ call' = call /\ call[r].case \in Case
      /\ \A q \in Request \ {r} : Unmoved(q)
      /\ sent \subseteq sent' /\ sent' \subseteq sent \cup {r} /\ sent \subseteq Request
  BY AtStep DEF OwnStep, StepOf, Inv, TypeOK
<1>2. \A q \in Request : InFlight(q)' => InFlight(q)
  BY <1>1 DEF InFlight, Unmoved
<1>3. Apart'
  BY <1>1, <1>2 DEF AloneInv, Apart
<1>4. ASSUME NEW c \in Case, c # call[r].case PROVE SentOn(c)' = SentOn(c)
  BY <1>1, <1>4 DEF SentOn
<1>5. ASSUME NEW q \in Request PROVE AloneOK(q)'
  <2>1. CASE q = r
    BY <2>1
  <2>2. CASE q # r /\ ~InFlight(q)
    BY <1>1, <2>2 DEF AloneOK, Settles, Unmoved, InFlight, Steps
  <2>3. CASE q # r /\ InFlight(q)
    <3>1. call[q].case \in Case /\ call[q].case # call[r].case
      BY <1>1, <2>3, AtStep DEF AloneInv, Apart
    <3>2. store'[call[q].case] = store[call[q].case] /\ SentOn(call[q].case)' = SentOn(call[q].case)
      BY <1>1, <1>4, <3>1 DEF StepOf
    <3>3. AloneOK(q) /\ Unmoved(q) /\ (Settles(q)' <=> Settles(q)) /\ ApprovalBy(q)' = ApprovalBy(q)
      BY <1>1, <2>3 DEF AloneInv, Unmoved, Settles, ApprovalBy
    <3>4. AllCryptographicChecksPassed(receipt[q], store[call[q].case]) =>
            AllCryptographicChecksPassed(receipt[q], store[call[q].case])'
      BY <1>1, <3>2, <3>3 DEF Unmoved
    <3> QED
      BY <1>1, <3>2, <3>3, <3>4 DEF AloneOK, Unmoved
  <2> QED
    BY <2>1, <2>2, <2>3
<1>6. ASSUME NEW c \in Case PROVE CaseOK(c)'
  <2>1. CASE c = call[r].case
    BY <2>1, <1>1
  <2>2. CASE c # call[r].case
    <3>1. /\ store'[c] = store[c] /\ SentOn(c)' = SentOn(c) /\ CaseOK(c)
          /\ \A i \in Instance : ledger'[i][c] = ledger[i][c]
      BY <1>1, <1>4, <2>2 DEF OwnStep, StepOf, AloneInv
    <3>2. \A q \in SentOn(c) : /\ ApprovalBy(q)' = ApprovalBy(q)
                               /\ pc'[q] = pc[q] /\ receipt'[q] = receipt[q]
      BY <1>1, <2>2 DEF SentOn, ApprovalBy, Unmoved
    <3>3. AllCryptographicChecksPassed(store[c].receipt, store[c]) =>
            AllCryptographicChecksPassed(store[c].receipt, store[c])'
      BY <3>1
    <3>4. \A q \in SentOn(c) : q \in SentOn(c)'
      BY <3>1
    <3> QED
      BY <3>1, <3>2, <3>3, <3>4 DEF CaseOK
  <2> QED
    BY <2>1, <2>2
<1> QED
  BY <1>3, <1>5, <1>6 DEF AloneInv

\* A step that leaves the record, the message and the fees of the case alone.
LEMMA QuietCase ==
  ASSUME Inv, AloneInv, NEW r \in Request, StepOf(r), AloneOK(r)',
         store' = store, sent' = sent, ledger' = ledger,
         current'[r] = current[r] \/ r \notin sent
  PROVE  AloneInv'
<1> DEFINE c == call[r].case
<1>1. /\ InFlight(r) /\ call' = call /\ c \in Case /\ sent \subseteq Request
      /\ \A q \in Request \ {r} : Unmoved(q)
  BY AtStep DEF StepOf, Inv, TypeOK
<1>2. SentOn(c)' = SentOn(c) /\ CaseOK(c)
  BY <1>1 DEF SentOn, AloneInv
<1>3. /\ \A q \in SentOn(c) : ApprovalBy(q)' = ApprovalBy(q)
      /\ \A q \in SentOn(c) : pc[q] \in {"done", "failed"} =>
           pc'[q] = pc[q] /\ receipt'[q] = receipt[q]
  BY <1>1 DEF SentOn, ApprovalBy, Unmoved, InFlight, Steps
<1>4. AllCryptographicChecksPassed(store[c].receipt, store[c]) =>
        AllCryptographicChecksPassed(store[c].receipt, store[c])'
  BY <1>1
<1>5. \A q \in SentOn(c) : q \in SentOn(c)'
  BY <1>2
<1>6. c' = c
  BY <1>1
<1> HIDE DEF c
<1>7. CaseOK(c)'
  BY <1>2, <1>3, <1>4, <1>5, <1>6 DEF CaseOK
<1> QED
  BY <1>1, <1>6, <1>7, Frame DEF OwnStep, c

\* The steps at whose end the request counts on nothing on record.
LEMMA PlainStepAlone ==
  ASSUME Inv, FeeInv, AloneInv, NEW r \in Request,
         \/ Analyze(r) \/ Final(r) \/ Authorize(r) \/ SendThrows(r)
         \/ Throw(r) /\ store' = store
  PROVE  AloneInv'
<1>1. StepOf(r)
  BY HandlerStep DEF Serve
<1>2. store' = store /\ sent' = sent /\ ledger' = ledger
  BY DEF Analyze, Final, Authorize, SendThrows, Throw, external
<1>3. /\ pc'[r] \in {"get", "done", "failed"}
      /\ pc'[r] = "get" => event'[r] \notin {"BEGIN_EXECUTION", "OUTCOME_CONFIRMED"}
  BY DEF Analyze, Final, Authorize, SendThrows, Throw, Transition, Goto, Inv, TypeOK
<1>4. current'[r] = current[r] \/ r \notin sent
  <2>1. CASE Authorize(r)
    <3>1. InFlight(r) /\ pc[r] = "authorize"
      BY <2>1 DEF Authorize, InFlight, Steps
    <3> QED
      BY <3>1, AtStep DEF StepOK, FeeInv, OutcomeOK
  <2>2. CASE Analyze(r) \/ Final(r) \/ SendThrows(r) \/ Throw(r)
    BY <2>2 DEF Analyze, Final, SendThrows, Throw, locals
  <2> QED
    BY <2>1, <2>2
<1>5. AloneOK(r)'
  BY <1>3 DEF AloneOK, Settles
<1> QED
  BY <1>1, <1>2, <1>4, <1>5, QuietCase

\* The get of a transition returns what is on record.
LEMMA GetAlone ==
  ASSUME Inv, AloneInv, NEW r \in Request, TransitionGet(r)
  PROVE  AloneInv'
<1>1. StepOf(r) /\ call' = call
  BY HandlerStep DEF Serve, TransitionGet
<1>2. /\ pc[r] = "get" /\ event' = event
      /\ UNCHANGED <<store, ledger, sent, current, outcome, receipt>>
      /\ \/ pc'[r] = "failed"
         \/ pc'[r] = "save" /\ read'[r] = store[call[r].case]
  BY DEF TransitionGet, Goto, external, locals, Inv, TypeOK
<1>3. /\ AloneOK(r) /\ ApprovalBy(r)' = ApprovalBy(r)
      /\ Settles(r)' => Settles(r)
  BY <1>1, <1>2 DEF AloneInv, ApprovalBy, Settles
<1>4. AllCryptographicChecksPassed(receipt[r], store[call[r].case]) =>
        AllCryptographicChecksPassed(receipt[r], store[call[r].case])'
  BY <1>1, <1>2
<1>5. AloneOK(r)'
  BY <1>1, <1>2, <1>3, <1>4 DEF AloneOK
<1> QED
  BY <1>1, <1>2, <1>5, QuietCase

\* Where a receipt is stored and anchored is not part of what it commits to.
LEMMA SettlingReceipt ==
  ASSUME Inv, TypeOK', NEW r \in Request,
         Upload(r) \/ AnchorSubmit(r) \/ AnchorSkip(r) \/ AnchorDone(r) \/ AnchorLost(r)
  PROVE  /\ StepOf(r) /\ InFlight(r) /\ call' = call
         /\ pc[r] \in {"upload", "anchor", "wait"} /\ pc'[r] \in {"anchor", "wait", "fee"}
         /\ UNCHANGED <<store, ledger, sent, current, outcome>>
         /\ \A a : AllCryptographicChecksPassed(receipt[r], a) =>
                   AllCryptographicChecksPassed(receipt'[r], a)
<1>1. /\ StepOf(r) /\ InFlight(r) /\ call' = call
      /\ pc[r] \in {"upload", "anchor", "wait"} /\ pc'[r] \in {"anchor", "wait", "fee"}
      /\ UNCHANGED <<store, ledger, sent, current, outcome>>
  BY HandlerStep
     DEF Serve, StepOf, Upload, AnchorSubmit, AnchorSkip, AnchorDone, AnchorLost, Goto, external,
         locals, Inv, TypeOK
<1>2. receipt[r] # Null /\ receipt[r] \in Receipt
  BY <1>1, AtStep DEF StepOK, Inv, TypeOK
<1>3. /\ receipt'[r] \in Receipt
      /\ receipt'[r].caseId = receipt[r].caseId /\ receipt'[r].receiptId = receipt[r].receiptId
      /\ receipt'[r].status = receipt[r].status
      /\ receipt'[r].commitments = receipt[r].commitments
  <2> DEFINE stored == [receipt[r] EXCEPT !.storageRootHash = "root"]
             anchored == [receipt[r] EXCEPT !.chainTxHash = r]
  <2>1. \/ receipt' = receipt
        \/ receipt' = [receipt EXCEPT ![r] = stored]
        \/ receipt' = [receipt EXCEPT ![r] = anchored]
    BY DEF Upload, AnchorSubmit, AnchorSkip, AnchorDone, AnchorLost, locals
  <2>2. /\ stored \in Receipt /\ stored.caseId = receipt[r].caseId
        /\ stored.receiptId = receipt[r].receiptId /\ stored.status = receipt[r].status
        /\ stored.commitments = receipt[r].commitments
    BY <1>2 DEF Receipt
  <2>3. /\ anchored \in Receipt /\ anchored.caseId = receipt[r].caseId
        /\ anchored.receiptId = receipt[r].receiptId /\ anchored.status = receipt[r].status
        /\ anchored.commitments = receipt[r].commitments
    BY <1>2 DEF Receipt
  <2> HIDE DEF stored, anchored
  <2> QED
    BY <1>2, <2>1, <2>2, <2>3 DEF Inv, TypeOK
<1>4. ASSUME NEW a, AllCryptographicChecksPassed(receipt[r], a)
      PROVE  AllCryptographicChecksPassed(receipt'[r], a)
  <2>1. /\ receipt[r].teeAttested \in BOOLEAN /\ receipt[r].environment \in Environment
        /\ receipt'[r].teeAttested \in BOOLEAN /\ receipt'[r].environment \in Environment
    BY <1>2, <1>3 DEF Receipt
  <2> QED
    BY <1>3, <1>4, <2>1, SameVerdict
<1> QED
  BY <1>1, <1>4

LEMMA SettlingAlone ==
  ASSUME Inv, AloneInv, TypeOK', NEW r \in Request,
         Upload(r) \/ AnchorSubmit(r) \/ AnchorSkip(r) \/ AnchorDone(r) \/ AnchorLost(r)
  PROVE  AloneInv'
<1>1. /\ StepOf(r) /\ InFlight(r) /\ call' = call
      /\ pc[r] \in {"upload", "anchor", "wait"} /\ pc'[r] \in {"anchor", "wait", "fee"}
      /\ UNCHANGED <<store, ledger, sent, current, outcome>>
  BY SettlingReceipt
<1>2. AloneOK(r) /\ Settles(r)
  BY <1>1 DEF AloneInv, Settles
<1>3. AllCryptographicChecksPassed(receipt'[r], store[call[r].case])
  BY <1>2, SettlingReceipt DEF AloneOK
<1>4. AllCryptographicChecksPassed(receipt[r], store[call[r].case])'
  BY <1>1, <1>3
<1>5. AloneOK(r)'
  BY <1>1, <1>2, <1>4 DEF AloneOK
<1> QED
  BY <1>1, <1>5, QuietCase

\* sendAction sends the first message of a case that is EXECUTING, and the
\* approval on record is that of the request that sends it.
LEMMA SendReturnsAlone ==
  ASSUME Inv, FeeInv, AloneInv, NEW r \in Request, SendReturns(r)
  PROVE  AloneInv'
<1> DEFINE c == call[r].case
<1>1. /\ StepOf(r) /\ InFlight(r) /\ call' = call /\ c \in Case /\ pc[r] = "send"
      /\ sent' = sent \cup {r} /\ sent \subseteq Request
      /\ UNCHANGED <<store, ledger, current, receipt>>
      /\ \A q \in Request \ {r} : Unmoved(q)
  BY HandlerStep, AtStep DEF Serve, StepOf, SendReturns, Inv, TypeOK
<1>2. pc'[r] = "get" /\ event'[r] \in {"EXECUTION_FAILED", "EXECUTION_SUCCEEDED"}
  BY DEF SendReturns, Transition, Inv, TypeOK
<1>3. /\ CaseOK(c) /\ SentOn(c) = {} /\ store[c].state = "EXECUTING"
      /\ store[c].approval = ApprovalBy(r)
  BY <1>1 DEF AloneInv, AloneOK
<1>4. store[c] # Null => Consistent(store[c])
  BY <1>1, AtStep
<1>5. SentOn(c)' = {r}
  BY <1>1, <1>3 DEF SentOn
<1>6. AloneOK(r)'
  BY <1>2 DEF AloneOK, Settles
<1>7. store[c] # Null
  BY <1>1, AtStep DEF StepOK, ApprovalOK
<1>8. ApprovalBy(r)' = ApprovalBy(r) /\ c' = c
  BY <1>1 DEF ApprovalBy
<1>9. store[c].receipt = Null
  BY <1>3, <1>4, <1>7 DEF Consistent
<1> HIDE DEF c
<1>10. CaseOK(c)'
  BY <1>1, <1>3, <1>5, <1>7, <1>8, <1>9 DEF CaseOK, AfterSend
<1> QED
  BY <1>1, <1>6, <1>8, <1>10, Frame DEF OwnStep, c

\* The fee that is booked is of the outcome on record, of a case that did not
\* fail.
LEMMA AssessFeeAlone ==
  ASSUME Inv, AloneInv, NEW r \in Request, AssessFee(r)
  PROVE  AloneInv'
<1> DEFINE c == call[r].case
           entry == Assessed(ComputeFee(outcome[r].verifiedSavingsCents))
<1>1. /\ StepOf(r) /\ InFlight(r) /\ call' = call /\ c \in Case /\ pc[r] = "fee"
      /\ call[r].instance \in Instance /\ sent \subseteq Request
      /\ UNCHANGED <<store, sent, current, outcome, receipt>>
      /\ \A q \in Request \ {r} : Unmoved(q)
  BY HandlerStep, AtStep DEF Serve, StepOf, AssessFee, locals, Inv, TypeOK
<1>2. /\ pc'[r] = "get" /\ event'[r] = "OUTCOME_CONFIRMED"
      /\ \A i \in Instance, d \in Case :
           \/ ledger'[i][d] = ledger[i][d]
           \/ d = c /\ ledger'[i][d] = entry
  <2> HIDE DEF entry
  <2>1. \/ ledger' = ledger
        \/ ledger' = [ledger EXCEPT ![call[r].instance] =
                        [ledger[call[r].instance] EXCEPT ![c] = entry]]
    BY DEF AssessFee, entry
  <2> QED
    BY <1>1, <2>1 DEF AssessFee, Transition, Inv, TypeOK
<1>3. /\ CaseOK(c) /\ store[c] # Null /\ store[c].state = "OUTCOME_PENDING"
      /\ store[c].outcome = outcome[r]
      /\ AllCryptographicChecksPassed(receipt[r], store[c])
  BY <1>1 DEF AloneInv, AloneOK, Settles
<1>4. AllCryptographicChecksPassed(receipt[r], store[c])'
  BY <1>1, <1>3
<1>5. AloneOK(r)'
  BY <1>1, <1>2, <1>3, <1>4 DEF AloneOK
<1>6. SentOn(c)' = SentOn(c) /\ c' = c
  BY <1>1 DEF SentOn
<1>7. \A q \in SentOn(c) : ApprovalBy(q)' = ApprovalBy(q)
  BY <1>1 DEF ApprovalBy
<1>8. store[c].receipt = Null
  BY <1>1, <1>3, AtStep DEF Consistent
<1>9. \A q \in SentOn(c) : q \in SentOn(c)'
  BY <1>6
<1> HIDE DEF c
<1>10. \A i \in Instance : ledger'[i][c] # Null =>
         ledger'[i][c] = Assessed(ComputeFee(store[c].outcome.verifiedSavingsCents))
  <2> SUFFICES ASSUME NEW i \in Instance, ledger'[i][c] # Null
               PROVE  ledger'[i][c] = Assessed(ComputeFee(store[c].outcome.verifiedSavingsCents))
    OBVIOUS
  <2>1. CASE ledger'[i][c] = ledger[i][c]
    BY <1>3, <2>1 DEF CaseOK
  <2>2. CASE ledger'[i][c] = entry
    BY <1>3, <2>2
  <2> QED
    BY <1>1, <1>2, <2>1, <2>2 DEF c
<1>11. CaseOK(c)'
  BY <1>1, <1>3, <1>6, <1>7, <1>8, <1>9, <1>10 DEF CaseOK
<1>12. OwnStep(r)
  BY <1>1, <1>2 DEF OwnStep, c
<1> QED
  BY <1>5, <1>6, <1>11, <1>12, Frame DEF c

\* A new case has had no message and no fee.
LEMMA CreatedAlone ==
  ASSUME Inv, AloneInv, NEW r \in Request, StepOf(r), pc[r] = "create",
         store' = [store EXCEPT ![call[r].case] = NewRecord(r)],
         UNCHANGED <<sent, ledger, locals>>, pc'[r] \in {"get", "failed"},
         pc'[r] = "get" => event'[r] = "SUBMIT"
  PROVE  AloneInv'
<1> DEFINE c == call[r].case
<1>1. /\ InFlight(r) /\ call' = call /\ c \in Case /\ store[c] = Null /\ CaseOK(c)
      /\ store'[c] = NewRecord(r)
  BY AtStep DEF StepOf, StepOK, SubmitOK, AloneInv, Inv, TypeOK
<1>2. SentOn(c) = {} /\ \A i \in Instance : ledger[i][c] = Null
  BY <1>1 DEF CaseOK
<1>3. SentOn(c)' = {} /\ c' = c
  BY <1>1, <1>2 DEF SentOn
<1>4. store'[c].state = "DRAFT" /\ store'[c].receipt = Null
  BY <1>1 DEF NewRecord
<1> HIDE DEF c
<1>5. CaseOK(c)'
  BY <1>2, <1>3, <1>4 DEF CaseOK
<1>6. AloneOK(r)'
  BY DEF AloneOK, Settles
<1> QED
  BY <1>3, <1>5, <1>6, Frame DEF OwnStep, c

\* What request r saves, with the record it read still on record.
LEMMA SavedRecord ==
  ASSUME Inv, AloneInv, NEW r \in Request, pc[r] = "save"
  PROVE  LET old == store[call[r].case]
             new == Patched(r)
         IN /\ old # Null /\ old = read[r] /\ old \in CaseRecord
            /\ Consistent(old) /\ Legal(old.state, event[r]) /\ Prepared(r)
            /\ new \in CaseRecord /\ new # Null /\ Consistent(new)
            /\ new.state = ApplyTransition(old.state, event[r])
            /\ new.approval = IF event[r] = "APPROVE" THEN ApprovalBy(r) ELSE old.approval
            /\ new.outcome = IF event[r] \in {"EXECUTION_SUCCEEDED", "EXECUTION_FAILED"}
                                /\ outcome[r] # Null
                             THEN outcome[r] ELSE old.outcome
            /\ new.receipt = IF event[r] = "OUTCOME_CONFIRMED" THEN receipt[r] ELSE Null
            /\ event[r] = "OUTCOME_CONFIRMED" =>
                 /\ new.input = old.input /\ new.proposal = old.proposal
                 /\ new.execution = old.execution
<1>1. InFlight(r)
  BY DEF InFlight, Steps
<1>2. /\ read[r] = store[call[r].case] /\ read[r] # Null
      /\ Consistent(read[r]) /\ Legal(read[r].state, event[r]) /\ Prepared(r)
      /\ read[r] \in CaseRecord
  BY <1>1, AtStep DEF AloneInv, AloneOK, ReadOK, StepOK, Inv, TypeOK
<1>3. event[r] = "OUTCOME_CONFIRMED" =>
        Patched(r) = [read[r] EXCEPT !.receipt = receipt[r],
                                     !.state = ApplyTransition(read[r].state, event[r])]
  BY <1>2 DEF Patched, Patch, CaseRecord
<1>4. event[r] = "OUTCOME_CONFIRMED" =>
        /\ Patched(r).input = read[r].input /\ Patched(r).proposal = read[r].proposal
        /\ Patched(r).execution = read[r].execution
  BY <1>2, <1>3 DEF CaseRecord
<1> QED
  BY <1>2, <1>4, PatchedFields, PatchedConsistent, SavedReceipt, NullAssumption

\* A save goes on from where the case is, so that it neither takes a case back
\* to before its message nor puts another approval on record.
LEMMA SavedCase ==
  ASSUME Inv, FeeInv, AloneInv, TypeOK', NEW r \in Request, StepOf(r), pc[r] = "save",
         store' = [store EXCEPT ![call[r].case] = Patched(r)],
         UNCHANGED <<sent, ledger, current, outcome>>,
         event[r] = "OUTCOME_CONFIRMED" =>
           receipt'[r] = receipt[r] /\ pc'[r] \in {"done", "failed"}
  PROVE  CaseOK(call[r].case)'
<1> DEFINE c == call[r].case
           old == store[c]
           new == Patched(r)
<1>1. /\ InFlight(r) /\ call' = call /\ c \in Case /\ CaseOK(c) /\ AloneOK(r)
      /\ store'[c] = new /\ sent \subseteq Request
      /\ \A q \in Request \ {r} : Unmoved(q)
  BY AtStep DEF StepOf, AloneInv, Inv, TypeOK
<1>2. SentOn(c)' = SentOn(c) /\ c' = c /\ \A q \in SentOn(c) : ApprovalBy(q)' = ApprovalBy(q)
  BY <1>1 DEF SentOn, ApprovalBy
<1>3. /\ old # Null /\ old \in CaseRecord /\ old.state \in CaseState
      /\ Consistent(old) /\ Legal(old.state, event[r]) /\ Prepared(r)
      /\ new \in CaseRecord /\ new # Null /\ Consistent(new)
      /\ new.approval = IF event[r] = "APPROVE" THEN ApprovalBy(r) ELSE old.approval
      /\ new.receipt = IF event[r] = "OUTCOME_CONFIRMED" THEN receipt[r] ELSE Null
      /\ event[r] = "OUTCOME_CONFIRMED" =>
           /\ new.input = old.input /\ new.proposal = old.proposal
           /\ new.execution = old.execution /\ new.outcome = old.outcome
           /\ new.approval = old.approval
  BY SavedRecord DEF CaseRecord
<1>4. \/ event[r] \in {"EXECUTION_SUCCEEDED", "EXECUTION_FAILED"}
         /\ old.state \in {"ANALYZING", "EXECUTING"}
         /\ new.state \in {"OUTCOME_PENDING", "EXECUTION_FAILED"}
      \/ event[r] = "OUTCOME_CONFIRMED"
         /\ old.state = "OUTCOME_PENDING" /\ new.state = "VERIFIED_SUCCESS"
      \/ event[r] \notin {"EXECUTION_SUCCEEDED", "EXECUTION_FAILED", "OUTCOME_CONFIRMED"}
         /\ old.state \notin AfterSend
         /\ new.state # "VERIFIED_SUCCESS"
  BY <1>3, SavedRecord, TransitionTable DEF Prepared, SubmitEvents, ApproveEvents, AfterSend
<1> HIDE DEF new, old
<1>5. SentOn(c) # {} => new.state \in AfterSend /\ event[r] # "APPROVE"
  BY <1>1, <1>4 DEF CaseOK, AfterSend, old
<1>6. new.state = "VERIFIED_SUCCESS" =>
        /\ event[r] = "OUTCOME_CONFIRMED" /\ AllCryptographicChecksPassed(receipt[r], old)
        /\ old.outcome = outcome[r]
  BY <1>1, <1>4 DEF AloneOK, Settles, old
<1>7. new.state = "VERIFIED_SUCCESS" => AllCryptographicChecksPassed(new.receipt, new)
  <2> SUFFICES ASSUME new.state = "VERIFIED_SUCCESS"
               PROVE  AllCryptographicChecksPassed(new.receipt, new)
    OBVIOUS
  <2>1. new.receipt = receipt[r] /\ receipt[r] # Null
    BY <1>3, <1>6 DEF Prepared
  <2>2. receipt[r].teeAttested \in BOOLEAN /\ receipt[r].environment \in Environment
    BY <2>1 DEF Inv, TypeOK, Receipt
  <2> QED
    BY <1>3, <1>6, <2>1, <2>2, SameVerdict
<1>8. new.receipt # Null =>
        /\ r \in SentOn(c) /\ pc'[r] \in {"done", "failed"}
        /\ new.receipt.commitments = receipt'[r].commitments
  <2> SUFFICES ASSUME new.receipt # Null
               PROVE  /\ r \in SentOn(c) /\ pc'[r] \in {"done", "failed"}
                      /\ new.receipt.commitments = receipt'[r].commitments
    OBVIOUS
  <2>1. event[r] = "OUTCOME_CONFIRMED" /\ new.receipt = receipt[r]
    BY <1>3
  <2>2. old.state = "OUTCOME_PENDING" /\ old.outcome = outcome[r]
    BY <1>1, <1>4, <2>1 DEF AloneOK, Settles, old
  <2>3. outcome[r] # Null
    BY <1>3, <2>2 DEF Consistent
  <2> QED
    BY <2>1, <2>3 DEF FeeInv, OutcomeOK, SentOn
<1>9. \A i \in Instance : ledger[i][c] # Null =>
        /\ new.state = "VERIFIED_SUCCESS" /\ new.outcome = old.outcome
        /\ ledger[i][c] = Assessed(ComputeFee(old.outcome.verifiedSavingsCents))
  BY <1>1, <1>3, <1>4 DEF CaseOK, AfterSend, old
<1>10. AllCryptographicChecksPassed(new.receipt, new) =>
         AllCryptographicChecksPassed(store[c].receipt, store[c])'
  BY <1>1, <1>2
<1> HIDE DEF c
<1>11. CaseOK(c)'
  BY <1>1, <1>2, <1>3, <1>5, <1>7, <1>8, <1>9, <1>10 DEF CaseOK, old
<1> QED
  BY <1>2, <1>11 DEF c

\* A save, and what the request counts on next.
LEMMA SaveAlone ==
  ASSUME Inv, FeeInv, AloneInv, TypeOK', NEW r \in Request, TransitionSave(r)
  PROVE  AloneInv'
<1> DEFINE c == call[r].case
           new == Patched(r)
<1>1. /\ StepOf(r) /\ InFlight(r) /\ call' = call /\ c \in Case /\ pc[r] = "save"
      /\ store' = [store EXCEPT ![c] = new] /\ store'[c] = new
      /\ UNCHANGED <<sent, ledger, current, outcome>>
  BY HandlerStep, AtStep DEF Serve, StepOf, TransitionSave, external, Inv, TypeOK
<1>2. /\ event[r] # "EXECUTION_SUCCEEDED" => receipt'[r] = receipt[r]
      /\ event[r] = "EXECUTION_SUCCEEDED" =>
           receipt'[r] = BuildReceipt(r, c, new, "sandbox")
      /\ event[r] = "OUTCOME_CONFIRMED" => pc'[r] = "done"
      /\ pc'[r] = "send" => event[r] = "BEGIN_EXECUTION"
      /\ Settles(r)' => event[r] = "EXECUTION_SUCCEEDED"
      /\ pc'[r] \in {"get", "save"} /\ event'[r] = "BEGIN_EXECUTION" => event[r] = "APPROVE"
      /\ pc'[r] # "save"
  BY DEF TransitionSave, Continue, Transition, Goto, Settles, Inv, TypeOK
<1>3. /\ CaseOK(c) /\ AloneOK(r) /\ Prepared(r) /\ store[c] # Null
      /\ store[c] \in CaseRecord /\ store[c].state \in CaseState
      /\ Legal(store[c].state, event[r])
      /\ new \in CaseRecord /\ Consistent(new) /\ new # Null
      /\ new.state = ApplyTransition(store[c].state, event[r])
      /\ new.approval = IF event[r] = "APPROVE" THEN ApprovalBy(r) ELSE store[c].approval
      /\ event[r] = "EXECUTION_SUCCEEDED" => outcome[r] # Null /\ new.outcome = outcome[r]
  BY <1>1, SavedRecord DEF AloneInv, Prepared, CaseRecord
<1>4. CaseOK(c)'
  BY <1>1, <1>2, SavedCase
<1>5. ApprovalBy(r)' = ApprovalBy(r) /\ SentOn(c)' = SentOn(c) /\ c' = c
  BY <1>1 DEF ApprovalBy, SentOn
<1> HIDE DEF new
<1>6. pc'[r] = "send" =>
        /\ new.state = "EXECUTING" /\ SentOn(c) = {} /\ new.approval = ApprovalBy(r)
  <2> SUFFICES ASSUME pc'[r] = "send"
               PROVE  /\ new.state = "EXECUTING" /\ SentOn(c) = {}
                      /\ new.approval = ApprovalBy(r)
    OBVIOUS
  <2>1. event[r] = "BEGIN_EXECUTION"
    BY <1>2
  <2>2. store[c].state = "APPROVED" /\ new.state = "EXECUTING"
    BY <1>3, <2>1, TransitionTable
  <2>3. new.approval = ApprovalBy(r)
    BY <1>1, <1>3, <2>1 DEF AloneOK
  <2> QED
    BY <1>3, <2>2, <2>3 DEF CaseOK, AfterSend
<1>7. event[r] = "EXECUTION_SUCCEEDED" =>
        /\ new.state = "OUTCOME_PENDING"
        /\ AllCryptographicChecksPassed(receipt'[r], new)
  <2> SUFFICES ASSUME event[r] = "EXECUTION_SUCCEEDED"
               PROVE  /\ new.state = "OUTCOME_PENDING"
                      /\ AllCryptographicChecksPassed(receipt'[r], new)
    OBVIOUS
  <2>1. new.state = "OUTCOME_PENDING"
    BY <1>3, TransitionTable
  <2>2. /\ new.proposal # Null /\ new.approval # Null
        /\ new.execution # Null /\ new.outcome # Null
    BY <2>1, <1>3 DEF Consistent
  <2>3. AllCryptographicChecksPassed(BuildReceipt(r, c, new, "sandbox"), new)
    BY <1>1, <1>3, <2>2, BuiltVerifies DEF CaseRecord
  <2> QED
    BY <1>2, <2>1, <2>3
<1>8. event[r] = "EXECUTION_SUCCEEDED" =>
        AllCryptographicChecksPassed(receipt[r], store[c])'
  BY <1>1, <1>5, <1>7
<1> HIDE DEF c
<1>9. AloneOK(r)'
  BY <1>1, <1>2, <1>3, <1>5, <1>6, <1>7, <1>8 DEF AloneOK, c
<1> QED
  BY <1>1, <1>4, <1>9, Frame DEF OwnStep, c

\* A store call that fails after it has written.
LEMMA ThrowAlone ==
  ASSUME Inv, FeeInv, AloneInv, TypeOK', NEW r \in Request, Throw(r)
  PROVE  AloneInv'
<1>1. /\ StepOf(r) /\ pc'[r] = "failed" /\ UNCHANGED <<sent, ledger, locals>>
  BY HandlerStep DEF Throw, Goto, external, Inv, TypeOK
<1>2. CASE store' = store
  BY <1>2, PlainStepAlone
<1>3. CASE pc[r] = "create" /\ store' = [store EXCEPT ![call[r].case] = NewRecord(r)]
  BY <1>1, <1>3, CreatedAlone
<1>4. CASE pc[r] = "save" /\ store' = [store EXCEPT ![call[r].case] = Patched(r)]
  <2>1. CaseOK(call[r].case)'
    BY <1>1, <1>4, SavedCase DEF locals
  <2>2. AloneOK(r)'
    BY <1>1 DEF AloneOK, Settles
  <2> QED
    BY <1>1, <2>1, <2>2, Frame DEF OwnStep
<1> QED
  BY <1>2, <1>3, <1>4 DEF Throw

-----------------------------------------------------------------------------
(* The other steps.                                                        *)

\* What AloneInv says of a case outlives a step that changes neither its record
\* nor what was sent for it, and that leaves the finished requests as they are.
LEMMA CaseStays ==
  ASSUME Inv, NEW c \in Case, CaseOK(c), UNCHANGED <<store, sent, receipt, current>>,
         \A q \in sent : /\ call'[q] = call[q]
                         /\ pc[q] \in {"done", "failed"} => pc'[q] = pc[q],
         \A i \in Instance : ledger'[i][c] = Null \/ ledger'[i][c] = ledger[i][c]
  PROVE  CaseOK(c)'
<1>1. SentOn(c)' = SentOn(c)
  BY DEF SentOn
<1>2. \A q \in SentOn(c) : /\ q \in SentOn(c)' /\ ApprovalBy(q)' = ApprovalBy(q)
                           /\ pc[q] \in {"done", "failed"} => pc'[q] = pc[q]
  BY <1>1 DEF SentOn, ApprovalBy
<1>3. AllCryptographicChecksPassed(store[c].receipt, store[c]) =>
        AllCryptographicChecksPassed(store[c].receipt, store[c])'
  OBVIOUS
<1> QED
  BY <1>1, <1>2, <1>3 DEF CaseOK

\* Without Overlap a request arrives at a case that no other is at work on.
LEMMA ArrivalAlone ==
  ASSUME ~Overlap, Inv, AloneInv, NEW r \in Request,
         ArriveSubmit(r) \/ ArriveApprove(r) \/ ArriveReject(r)
  PROVE  AloneInv'
<1>1. PICK c \in Case :
        /\ Unused(c) \/ Admitted(c)
        /\ pc[r] = "idle" /\ call'[r].case = c
        /\ pc'[r] \in {"create", "authorize"}
        /\ \A q \in Request \ {r} : pc'[q] = pc[q] /\ call'[q] = call[q]
        /\ UNCHANGED <<store, external, event, read, locals>>
  BY DEF ArriveSubmit, ArriveApprove, ArriveReject, Arrive, Inv, TypeOK
<1>2. \A q \in Request : InFlight(q) => call[q].case # c
  BY <1>1, AtStep, ArgumentsAssumption DEF Unused, Admitted
<1>3. \A q \in Request \ {r} : InFlight(q)' => InFlight(q)
  BY <1>1 DEF InFlight
<1>4. Apart'
  BY <1>1, <1>2, <1>3 DEF AloneInv, Apart
<1>5. \A q \in sent : q \in Request \ {r}
  BY <1>1 DEF Inv, TypeOK, RequestOK, SentOK, ApprovalOK, Called
<1>6. \A d : SentOn(d)' = SentOn(d)
  BY <1>1, <1>5 DEF SentOn, external
<1>7. ASSUME NEW q \in Request PROVE AloneOK(q)'
  <2>1. CASE q = r
    BY <1>1, <2>1 DEF AloneOK, Settles
  <2>2. CASE q # r
    <3>1. AloneOK(q) /\ pc'[q] = pc[q] /\ call'[q] = call[q] /\ (Settles(q)' <=> Settles(q))
          /\ ApprovalBy(q)' = ApprovalBy(q)
      BY <1>1, <2>2 DEF AloneInv, Settles, ApprovalBy, locals
    <3>2. AllCryptographicChecksPassed(receipt[q], store[call[q].case]) =>
            AllCryptographicChecksPassed(receipt[q], store[call[q].case])'
      BY <1>1, <3>1 DEF locals
    <3> QED
      BY <1>1, <1>6, <3>1, <3>2 DEF AloneOK, locals
  <2> QED
    BY <2>1, <2>2
<1>8. ASSUME NEW d \in Case PROVE CaseOK(d)'
  BY <1>1, <1>5, CaseStays DEF AloneInv, external, locals
<1> QED
  BY <1>4, <1>7, <1>8 DEF AloneInv

\* A crash ends requests, and takes fees with it.
LEMMA CrashAlone ==
  ASSUME Inv, AloneInv, NEW i \in Instance, Crash(i)
  PROVE  AloneInv'
<1>1. /\ UNCHANGED <<store, sent, call, event, current, outcome, receipt>>
      /\ \A q \in Request : \/ pc'[q] = "failed" /\ InFlight(q)
                            \/ pc'[q] = pc[q] /\ read'[q] = read[q]
      /\ \A j \in Instance, c \in Case : ledger'[j][c] = Null \/ ledger'[j][c] = ledger[j][c]
  BY DEF Crash, locals, Inv, TypeOK
<1>2. /\ \A q \in Request : InFlight(q)' => InFlight(q)
      /\ \A q \in Request : pc[q] \in {"done", "failed"} => pc'[q] = pc[q]
  BY <1>1 DEF InFlight, Steps
<1>3. Apart'
  BY <1>1, <1>2 DEF AloneInv, Apart
<1>4. ASSUME NEW q \in Request PROVE AloneOK(q)'
  <2>1. CASE pc'[q] = "failed"
    BY <2>1 DEF AloneOK, Settles
  <2>2. CASE pc'[q] = pc[q] /\ read'[q] = read[q]
    <3>1. AloneOK(q) /\ (Settles(q)' <=> Settles(q)) /\ ApprovalBy(q)' = ApprovalBy(q)
          /\ SentOn(call[q].case)' = SentOn(call[q].case)
      BY <1>1, <2>2 DEF AloneInv, Settles, ApprovalBy, SentOn
    <3>2. AllCryptographicChecksPassed(receipt[q], store[call[q].case]) =>
            AllCryptographicChecksPassed(receipt[q], store[call[q].case])'
      BY <1>1
    <3> QED
      BY <1>1, <2>2, <3>1, <3>2 DEF AloneOK
  <2> QED
    BY <1>1, <2>1, <2>2
<1>5. ASSUME NEW c \in Case PROVE CaseOK(c)'
  <2>1. sent \subseteq Request /\ CaseOK(c)
    BY DEF AloneInv, Inv, TypeOK
  <2> QED
    BY <1>1, <1>2, <2>1, CaseStays
<1> QED
  BY <1>3, <1>4, <1>5 DEF AloneInv

\* A step that only the chain or nobody takes.
LEMMA IdleAlone ==
  ASSUME Inv, AloneInv,
         UNCHANGED <<store, ledger, sent, pc, call, event, read, current, outcome, receipt>>
  PROVE  AloneInv'
<1>1. Apart'
  BY DEF AloneInv, Apart, InFlight
<1>2. ASSUME NEW q \in Request PROVE AloneOK(q)'
  <2>1. AloneOK(q) /\ (Settles(q)' <=> Settles(q)) /\ ApprovalBy(q)' = ApprovalBy(q)
        /\ SentOn(call[q].case)' = SentOn(call[q].case)
    BY DEF AloneInv, Settles, ApprovalBy, SentOn
  <2>2. AllCryptographicChecksPassed(receipt[q], store[call[q].case]) =>
          AllCryptographicChecksPassed(receipt[q], store[call[q].case])'
    OBVIOUS
  <2> QED
    BY <2>1, <2>2 DEF AloneOK
<1>3. ASSUME NEW c \in Case PROVE CaseOK(c)'
  BY CaseStays DEF AloneInv
<1> QED
  BY <1>1, <1>2, <1>3 DEF AloneInv

-----------------------------------------------------------------------------
(* The invariant.                                                          *)

\* Every step keeps AloneInv if requests do not overlap.
LEMMA NextAlone ==
  ASSUME ~Overlap, Inv, FeeInv, AloneInv, [Next]_vars
  PROVE  AloneInv'
<1>1. TypeOK'
  BY NextInv DEF Inv
<1>2. ASSUME NEW r \in Request, Create(r) PROVE AloneInv'
  <2>1. StepOf(r)
    BY <1>2, HandlerStep DEF Serve
  <2>2. /\ pc[r] = "create" /\ store' = [store EXCEPT ![call[r].case] = NewRecord(r)]
        /\ UNCHANGED <<sent, ledger, locals>> /\ pc'[r] = "get" /\ event'[r] = "SUBMIT"
    BY <1>2 DEF Create, Transition, external, Inv, TypeOK
  <2> QED
    BY <2>1, <2>2, CreatedAlone
<1>3. ASSUME NEW r \in Request, Serve(r) \/ AnchorLost(r) \/ Throw(r)
      PROVE  AloneInv'
  BY <1>1, <1>2, <1>3, GetAlone, SaveAlone, PlainStepAlone, SendReturnsAlone, SettlingAlone,
     AssessFeeAlone, ThrowAlone DEF Serve
<1>4. ASSUME NEW r \in Request, Mine(r) PROVE AloneInv'
  BY <1>4, IdleAlone DEF Mine, locals
<1>5. CASE UNCHANGED vars
  BY <1>5, IdleAlone DEF vars, external, locals
<1> QED
  BY <1>3, <1>4, <1>5, ArrivalAlone, CrashAlone DEF Next, Quiescent

\* AloneInv holds throughout, given Inv and FeeInv.
LEMMA AloneInvariance ==
  ASSUME ~Overlap
  PROVE  Spec => []AloneInv
<1>1. Init => AloneInv
  BY DEF Init, AloneInv, Apart, AloneOK, Settles, CaseOK, SentOn, InFlight, Steps
<1>2. Inv /\ FeeInv /\ AloneInv /\ [Next]_vars => AloneInv'
  BY NextAlone
<1> QED
  BY <1>1, <1>2, Invariance, FeeInvariance, PTL DEF Spec

\* Without overlap a message is sent once, however often its approval is
\* retried and wherever requests stop.
THEOREM OneMessage ==
  ASSUME ~Overlap
  PROVE  Spec => []AtMostOneSend
<1>1. Inv /\ AloneInv => AtMostOneSend
  <2> SUFFICES ASSUME Inv, AloneInv, NEW r \in sent, NEW q \in sent, call[r].case = call[q].case
               PROVE  r = q
    BY DEF AtMostOneSend
  <2>1. call[r].case \in Case
    BY DEF Inv, TypeOK, RequestOK, SentOK, ApprovalOK, CallOK, Called, Arguments
  <2> QED
    BY <2>1 DEF AloneInv, CaseOK, SentOn
<1> QED
  BY <1>1, Invariance, AloneInvariance, PTL

\* Without overlap a case whose user turned the proposal down has not been acted
\* on.
THEOREM RejectionIsSafe ==
  ASSUME ~Overlap
  PROVE  Spec => []RejectedNeverSent
<1>1. AloneInv => RejectedNeverSent
  BY DEF AloneInv, CaseOK, AfterSend, RejectedNeverSent
<1> QED
  BY <1>1, AloneInvariance, PTL

\* Without overlap the approval on record is that of the request that sent the
\* message.
THEOREM SenderApproved ==
  ASSUME ~Overlap
  PROVE  Spec => []ApprovalOnRecord
<1>1. Inv /\ AloneInv => ApprovalOnRecord
  <2> SUFFICES ASSUME Inv, AloneInv, NEW r \in sent
               PROVE  store[call[r].case].approval = ApprovalBy(r)
    BY DEF ApprovalOnRecord
  <2>1. call[r].case \in Case
    BY DEF Inv, TypeOK, RequestOK, SentOK, ApprovalOK, CallOK, Called, Arguments
  <2> QED
    BY <2>1 DEF AloneInv, CaseOK, SentOn
<1> QED
  BY <1>1, Invariance, AloneInvariance, PTL

\* Without overlap the receipt of a success passes verifyCaseReceipt, whatever
\* became of its upload and of its transaction.
THEOREM SuccessesVerify ==
  ASSUME ~Overlap
  PROVE  Spec => []SuccessVerifies
<1>1. AloneInv => SuccessVerifies
  BY DEF AloneInv, CaseOK, SuccessVerifies
<1> QED
  BY <1>1, AloneInvariance, PTL

\* Without overlap the chain holds the commitment of the receipt on record, or
\* none.
THEOREM ChainAgrees ==
  ASSUME ~Overlap
  PROVE  Spec => []AnchorMatchesReceipt
<1>1. Inv /\ FeeInv /\ AnchorInv /\ AloneInv => AnchorMatchesReceipt
  <2> SUFFICES ASSUME Inv, FeeInv, AnchorInv, AloneInv, NEW c \in Case,
                      store[c] # Null, store[c].receipt # Null, chain[c] # Null
               PROVE  chain[c] = store[c].receipt.commitments.receipt
    BY DEF AnchorMatchesReceipt
  <2>1. PICK r \in Request : tx[r] = "mined" /\ call[r].case = c
    BY DEF AnchorInv, ChainFilled
  <2>2. r \in SentOn(c) /\ chain[c] = receipt[r].commitments.receipt
    BY <2>1 DEF AnchorInv, AnchorOK, FeeInv, OutcomeOK, SentOn
  <2>3. PICK q \in SentOn(c) : store[c].receipt.commitments = receipt[q].commitments
    BY DEF AloneInv, CaseOK
  <2>4. q = r
    BY <2>2, <2>3 DEF AloneInv, CaseOK
  <2> QED
    BY <2>2, <2>3, <2>4
<1> QED
  BY <1>1, Invariance, FeeInvariance, AnchorInvariance, AloneInvariance, PTL

\* Without overlap a fee is of the outcome on record, of a case that did not
\* fail.
THEOREM FeesMatch ==
  ASSUME ~Overlap
  PROVE  Spec => []FeeMatchesOutcome
<1>1. AloneInv => FeeMatchesOutcome
  BY DEF AloneInv, CaseOK, FeeMatchesOutcome
<1> QED
  BY <1>1, AloneInvariance, PTL

\* What is stored with a success.
Stored(R) ==
  /\ R \in CaseRecord /\ R.proposal \in Proposal /\ R.approval \in Approval
  /\ R.execution \in Execution /\ R.outcome \in Outcome /\ R.receipt \in Receipt

\* Two cases differ in the facts, or in a link, but not in what decides a receipt's badge.
Differs(A, R) ==
  /\ A.receipt.teeAttested = R.receipt.teeAttested
  /\ A.receipt.environment = R.receipt.environment
  /\ \/ /\ A.receipt.commitments = R.receipt.commitments
        /\ ~SameFacts(R.receipt, R, A.receipt, A)
     \/ /\ A.receipt.commitments # R.receipt.commitments
        /\ SameFacts(R.receipt, R, A.receipt, A)
        /\ \E link, x : A.receipt.commitments = [R.receipt.commitments EXCEPT ![link] = x]

\* A case with a thing replaced that a link takes in has other facts, or another link.
LEMMA LinkedDiffers ==
  ASSUME NEW R, Stored(R), NEW A \in Linked(R), A # R
  PROVE  Differs(A, R)
<1>0. R.input \in [account : Account, details : Nat \cup {Null}, desired : Nat \cup {Null}]
  BY InputAssumption DEF CaseRecord, Stored
<1>1. CASE A \in { [R EXCEPT !.input.account = x] : x \in Account }
  <2>1. \E x : A = [R EXCEPT !.input = [R.input EXCEPT !.account = x]]
    BY <1>1
  <2> QED
    BY <1>0, <2>1 DEF CaseRecord, Differs, SameFacts, Stored
<1>2. CASE \/ A \in { [R EXCEPT !.proposal.proposalId = x] : x \in Request }
          \/ A \in { [R EXCEPT !.proposal.exactMessage = x] : x \in Message }
  <2>1. \E x :
             \/ A = [R EXCEPT !.proposal = [R.proposal EXCEPT !.proposalId = x]]
             \/ A = [R EXCEPT !.proposal = [R.proposal EXCEPT !.exactMessage = x]]
    BY <1>2
  <2> QED
    BY <2>1 DEF CaseRecord, Differs, Proposal, SameFacts, Stored
<1>3. CASE \/ A \in { [R EXCEPT !.approval.approvedAt = x] : x \in Request }
          \/ A \in { [R EXCEPT !.approval.actionCommitment =
                       Commit([R.proposal EXCEPT !.exactMessage = x])] : x \in Message }
  <2>1. \E x :
             \/ A = [R EXCEPT !.approval = [R.approval EXCEPT !.approvedAt = x]]
             \/ A = [R EXCEPT !.approval = [R.approval EXCEPT !.actionCommitment = x]]
    BY <1>3
  <2> QED
    BY <2>1 DEF Approval, CaseRecord, Differs, SameFacts, Stored
<1>4. CASE \/ A \in { [R EXCEPT !.execution.executionId = x] : x \in Request }
          \/ A \in { [R EXCEPT !.execution.outputCommitment = Commit(x)] : x \in Message }
          \/ A \in { [R EXCEPT !.execution.teeAttested = x] : x \in BOOLEAN }
          \/ A \in { [R EXCEPT !.execution.providerAddress = x] : x \in {"provider", Null} }
  <2>1. \E x :
             \/ A = [R EXCEPT !.execution = [R.execution EXCEPT !.executionId = x]]
             \/ A = [R EXCEPT !.execution = [R.execution EXCEPT !.outputCommitment = x]]
             \/ A = [R EXCEPT !.execution = [R.execution EXCEPT !.teeAttested = x]]
             \/ A = [R EXCEPT !.execution = [R.execution EXCEPT !.providerAddress = x]]
    BY <1>4
  <2> QED
    BY <2>1 DEF CaseRecord, Differs, Execution, SameFacts, Stored
<1>5. CASE \/ A \in { [R EXCEPT !.outcome.outcomeType = x] : x \in OutcomeType }
          \/ A \in { [R EXCEPT !.outcome.claimedSavingsCents = @ + 1] }
          \/ A \in { [R EXCEPT !.outcome.verifiedSavingsCents = Null] }
  <2>1. \E x :
             \/ A = [R EXCEPT !.outcome = [R.outcome EXCEPT !.outcomeType = x]]
             \/ A = [R EXCEPT !.outcome = [R.outcome EXCEPT !.claimedSavingsCents = x]]
             \/ A = [R EXCEPT !.outcome = [R.outcome EXCEPT !.verifiedSavingsCents = x]]
    BY <1>5
  <2> QED
    BY <2>1 DEF CaseRecord, Differs, Outcome, SameFacts, Stored
<1>6. CASE \/ A \in { [R EXCEPT !.receipt.receiptId = x] : x \in Request }
          \/ A \in { [R EXCEPT !.receipt.caseId = x] : x \in Case }
          \/ A \in { [R EXCEPT !.receipt.status = x] : x \in Status }
  <2>1. \E x :
             \/ A = [R EXCEPT !.receipt = [R.receipt EXCEPT !.receiptId = x]]
             \/ A = [R EXCEPT !.receipt = [R.receipt EXCEPT !.caseId = x]]
             \/ A = [R EXCEPT !.receipt = [R.receipt EXCEPT !.status = x]]
    BY <1>6
  <2> QED
    BY <2>1 DEF CaseRecord, Differs, Receipt, SameFacts, Stored
<1>7. CASE \E link, x :
        A = [R EXCEPT !.receipt = [R.receipt EXCEPT !.commitments =
               [R.receipt.commitments EXCEPT ![link] = x]]]
  <2>1. PICK link, x :
          A = [R EXCEPT !.receipt = [R.receipt EXCEPT !.commitments =
                 [R.receipt.commitments EXCEPT ![link] = x]]]
    BY <1>7
  <2> DEFINE other == [R.receipt.commitments EXCEPT ![link] = x]
  <2>2. A = [R EXCEPT !.receipt = [R.receipt EXCEPT !.commitments = other]]
    BY <2>1
  <2>3. \E l, y : other = [R.receipt.commitments EXCEPT ![l] = y]
    OBVIOUS
  <2> HIDE DEF other
  <2>4. /\ A.receipt.commitments = other
        /\ A.receipt.teeAttested = R.receipt.teeAttested
        /\ A.receipt.environment = R.receipt.environment
        /\ SameFacts(R.receipt, R, A.receipt, A)
        /\ other = R.receipt.commitments => A = R
    BY <2>2 DEF CaseRecord, Receipt, SameFacts, Stored
  <2> QED
    BY <2>3, <2>4 DEF Differs
<1>8. \/ A \in { [R EXCEPT !.input.account = x] : x \in Account }
      \/ A \in { [R EXCEPT !.proposal.proposalId = x] : x \in Request }
      \/ A \in { [R EXCEPT !.proposal.exactMessage = x] : x \in Message }
      \/ A \in { [R EXCEPT !.approval.approvedAt = x] : x \in Request }
      \/ A \in { [R EXCEPT !.approval.actionCommitment =
                    Commit([R.proposal EXCEPT !.exactMessage = x])] : x \in Message }
      \/ A \in { [R EXCEPT !.execution.executionId = x] : x \in Request }
      \/ A \in { [R EXCEPT !.execution.outputCommitment = Commit(x)] : x \in Message }
      \/ A \in { [R EXCEPT !.execution.teeAttested = x] : x \in BOOLEAN }
      \/ A \in { [R EXCEPT !.execution.providerAddress = x] : x \in {"provider", Null} }
      \/ A \in { [R EXCEPT !.outcome.outcomeType = x] : x \in OutcomeType }
      \/ A \in { [R EXCEPT !.outcome.claimedSavingsCents = @ + 1] }
      \/ A \in { [R EXCEPT !.outcome.verifiedSavingsCents = Null] }
      \/ A \in { [R EXCEPT !.receipt.receiptId = x] : x \in Request }
      \/ A \in { [R EXCEPT !.receipt.caseId = x] : x \in Case }
      \/ A \in { [R EXCEPT !.receipt.status = x] : x \in Status }
      \/ A \in { [R EXCEPT !.receipt.commitments[link] = Commit(x)] :
                   link \in {"case", "action", "execution", "outcome", "receipt"}, x \in Request }
  BY SMTT(60) DEF Linked
<1>9. CASE A \in { [R EXCEPT !.receipt.commitments[link] = Commit(x)] :
                     link \in {"case", "action", "execution", "outcome", "receipt"}, x \in Request }
  BY <1>7, <1>9
<1> QED
  BY <1>1, <1>2, <1>3, <1>4, <1>5, <1>6, <1>8, <1>9

\* A case with a thing replaced that no link takes in has the facts and the links.
LEMMA UnlinkedSame ==
  ASSUME NEW R, Stored(R), NEW A \in Unlinked(R)
  PROVE  /\ A.receipt.teeAttested \in BOOLEAN /\ A.receipt.environment \in Environment
         /\ A.receipt.commitments = R.receipt.commitments
         /\ SameFacts(R.receipt, R, A.receipt, A)
<1>0. R.input \in [account : Account, details : Nat \cup {Null}, desired : Nat \cup {Null}]
  BY InputAssumption DEF CaseRecord, Stored
<1>1. CASE \E x : \/ A = [R EXCEPT !.input = [R.input EXCEPT !.details = x]]
                  \/ A = [R EXCEPT !.input = [R.input EXCEPT !.desired = x]]
  BY <1>0, <1>1 DEF CaseRecord, Receipt, SameFacts, Stored
<1>2. CASE \E x : A = [R EXCEPT !.proposal = [R.proposal EXCEPT !.estimatedRecoveryCents = x]]
  BY <1>2 DEF CaseRecord, Proposal, Receipt, SameFacts, Stored
<1>3. CASE \E x : \/ A = [R EXCEPT !.approval = [R.approval EXCEPT !.proposalId = x]]
                  \/ A = [R EXCEPT !.approval = [R.approval EXCEPT !.approvedBy = x]]
  BY <1>3 DEF CaseRecord, Approval, Receipt, SameFacts, Stored
<1>4. CASE \E x : A = [R EXCEPT !.execution = [R.execution EXCEPT !.succeeded = x]]
  BY <1>4 DEF CaseRecord, Execution, Receipt, SameFacts, Stored
<1>5. CASE \E x : A = [R EXCEPT !.outcome = [R.outcome EXCEPT !.counterpartyConfirmation = x]]
  BY <1>5 DEF CaseRecord, Outcome, Receipt, SameFacts, Stored
<1>6. CASE A \in { [R EXCEPT !.receipt = x] : x \in OwnClaims(R.receipt) }
  <2>1. PICK y \in OwnClaims(R.receipt) : A = [R EXCEPT !.receipt = y]
    BY <1>6
  <2>2. \/ y \in { [R.receipt EXCEPT !.claimedSavingsCents = @ + 1] }
        \/ y \in { [R.receipt EXCEPT !.verifiedSavingsCents = x] : x \in {0, Null} }
        \/ y \in { [R.receipt EXCEPT !.teeAttested = x] : x \in BOOLEAN }
        \/ y \in { [R.receipt EXCEPT !.environment = x] : x \in Environment }
        \/ y \in { [R.receipt EXCEPT !.approvedAt = x] : x \in Request }
        \/ y \in { [R.receipt EXCEPT !.chainTxHash = x] : x \in Request \cup {Null} }
        \/ y \in { [R.receipt EXCEPT !.storageRootHash = x] : x \in {"root", Null} }
    BY <2>1, ZenonT(60) DEF OwnClaims
  <2>3. /\ y.teeAttested \in BOOLEAN /\ y.environment \in Environment
        /\ y.commitments = R.receipt.commitments /\ y.caseId = R.receipt.caseId
        /\ y.receiptId = R.receipt.receiptId /\ y.status = R.receipt.status
    BY <2>2 DEF Receipt, Stored
  <2>4. /\ A.receipt = y /\ A.input = R.input /\ A.proposal = R.proposal
        /\ A.approval = R.approval /\ A.execution = R.execution /\ A.outcome = R.outcome
    BY <2>1 DEF CaseRecord, Stored
  <2> QED
    BY <2>3, <2>4 DEF SameFacts
<1>7. \/ A \in { [R EXCEPT !.receipt = x] : x \in OwnClaims(R.receipt) }
      \/ A \in { [R EXCEPT !.input.details = x] : x \in {0, Null} }
      \/ A \in { [R EXCEPT !.input.desired = x] : x \in {0, Null} }
      \/ A \in { [R EXCEPT !.proposal.estimatedRecoveryCents = x] : x \in {0, Null} }
      \/ A \in { [R EXCEPT !.approval.proposalId = x] : x \in Request }
      \/ A \in { [R EXCEPT !.approval.approvedBy = x] : x \in Owner }
      \/ A \in { [R EXCEPT !.execution.succeeded = x] : x \in BOOLEAN }
      \/ A \in { [R EXCEPT !.outcome.counterpartyConfirmation = x] : x \in BOOLEAN }
  BY ZenonT(60) DEF Unlinked
<1> QED
  BY <1>1, <1>2, <1>3, <1>4, <1>5, <1>6, <1>7

\* Two links of a record are the same chain if the record passes with both.
LEMMA OneChain ==
  ASSUME NEW x, NEW y, NEW a, NEW b, SameFacts(x, a, y, b),
         x.commitments \in Commitments,
         AllCryptographicChecksPassed(x, a), AllCryptographicChecksPassed(y, b),
         x.teeAttested \in BOOLEAN, x.environment \in Environment,
         y.teeAttested \in BOOLEAN, y.environment \in Environment
  PROVE  \A link \in {"case", "action", "execution", "outcome", "receipt"} :
           x.commitments[link] = y.commitments[link]
<1> DEFINE caseC(z, d) == CaseCommitment(z.caseId, d.input)
           actionC(z, d) == ActionCommitment(caseC(z, d), d.proposal, d.approval)
           executionC(z, d) == ExecutionCommitment(actionC(z, d), d.execution)
           outcomeC(z, d) == OutcomeCommitment(executionC(z, d), d.outcome)
<1>1. caseC(x, a) = caseC(y, b)
  BY DEF SameFacts, CaseCommitment
<1>2. actionC(x, a) = actionC(y, b)
  BY <1>1 DEF SameFacts, ActionCommitment
<1>3. executionC(x, a) = executionC(y, b)
  BY <1>2 DEF SameFacts, ExecutionCommitment
<1>4. outcomeC(x, a) = outcomeC(y, b)
  BY <1>3 DEF SameFacts, OutcomeCommitment
<1> QED
  BY <1>1, <1>2, <1>3, <1>4, Verdict DEF SameFacts

\* Of a case whose receipt verifies what is linked, and nothing else, is noticed.
LEMMA NoticedIfVerified ==
  ASSUME Inv, SuccessVerifies
  PROVE  NoticedIffLinked
<1> SUFFICES ASSUME NEW c \in Succeeded
             PROVE  /\ \A A \in Linked(store[c]) \ {store[c]} : ~Verifies(A)
                    /\ \A A \in Unlinked(store[c]) : Verifies(A)
  BY DEF NoticedIffLinked
<1> DEFINE R == store[c]
<1>1. /\ c \in Case /\ R # Null /\ R \in CaseRecord
      /\ R.state = "VERIFIED_SUCCESS" /\ Consistent(R)
      /\ AllCryptographicChecksPassed(R.receipt, R)
  BY DEF Succeeded, Inv, TypeOK, RecordsConsistent, SuccessVerifies
<1>2. Stored(R)
  BY <1>1 DEF Consistent, CaseRecord, Stored
<1>3. /\ R.receipt.teeAttested \in BOOLEAN /\ R.receipt.environment \in Environment
      /\ R.receipt.commitments \in Commitments
  BY <1>2 DEF Receipt, Stored
<1> HIDE DEF R
<1>4. ASSUME NEW A \in Linked(R), A # R, Verifies(A) PROVE FALSE
  <2>1. Differs(A, R)
    BY <1>2, <1>4, LinkedDiffers
  <2>2. CASE A.receipt.commitments = R.receipt.commitments
    BY <1>1, <1>3, <1>4, <2>1, <2>2, CommitmentBinds DEF Differs, Verifies
  <2>3. CASE A.receipt.commitments # R.receipt.commitments
    <3>1. \A link \in {"case", "action", "execution", "outcome", "receipt"} :
            R.receipt.commitments[link] = A.receipt.commitments[link]
      BY <1>1, <1>3, <1>4, <2>1, <2>3, OneChain DEF Differs, Verifies
    <3>2. PICK link, x : A.receipt.commitments = [R.receipt.commitments EXCEPT ![link] = x]
      BY <2>1, <2>3 DEF Differs
    <3>3. A.receipt.commitments = R.receipt.commitments
      BY <1>3, <3>1, <3>2 DEF Commitments
    <3> QED
      BY <2>3, <3>3
  <2> QED
    BY <2>2, <2>3
<1>5. ASSUME NEW A \in Unlinked(R) PROVE Verifies(A)
  BY <1>1, <1>2, <1>3, <1>5, UnlinkedSame, SameFactsVerdict DEF Verifies
<1> QED
  BY <1>4, <1>5 DEF R

\* Without overlap the verifier notices that something stored with a success was
\* replaced exactly if a link of the receipt's chain takes it in.
THEOREM LinksAreNoticed ==
  ASSUME ~Overlap
  PROVE  Spec => []NoticedIffLinked
BY Invariance, SuccessesVerify, NoticedIfVerified, PTL

-----------------------------------------------------------------------------
(* What the page tells of a receipt.                                       *)

\* What a receipt says of itself is what its links took in when it was built, and only
\* the sandbox gets a request as far as a receipt.
FromSandbox(x) ==
  /\ x.environment = "sandbox"
  /\ x.claimedSavingsCents = x.commitments.outcome.sha256.artifact.claimedSavingsCents
  /\ x.verifiedSavingsCents = x.commitments.outcome.sha256.artifact.verifiedSavingsCents
  /\ x.teeAttested = x.commitments.execution.sha256.artifact.teeAttested

\* Of a receipt that passes, from the sandbox, the card tells what the report does.
LEMMA CardFollows ==
  ASSUME NEW a, a.receipt.teeAttested \in BOOLEAN, FromSandbox(a.receipt), Verifies(a)
  PROVE  CardAgrees(a.receipt, a)
<1> DEFINE x == a.receipt
           crypto == "cryptographically_verifiable"
           unknown == "not_independently_verifiable"
           forCase == CaseCommitment(x.caseId, a.input)
           forAction == ActionCommitment(forCase, a.proposal, a.approval)
           forExecution == ExecutionCommitment(forAction, a.execution)
           forOutcome == OutcomeCommitment(forExecution, a.outcome)
           forReceipt == ReceiptCommitment(forOutcome, x.receiptId, x.status)
           approved == a.approval.approvedAt # Null /\ a.approval.actionCommitment # Null
           corroborated == a.outcome.verifiedSavingsCents # Null
           anchored == x.chainTxHash # Null
           ifTrue(fact, strength) == IF fact THEN strength ELSE unknown
           checks == Checks(x, a)
           rows == Rows(checks)
<1>1. checks =
        { Check("case", forCase = x.commitments.case, crypto),
          Check("approved", approved, crypto),
          Check("action", forAction = x.commitments.action, crypto),
          Check("execution", forExecution = x.commitments.execution, crypto),
          Check("attested", x.teeAttested, ifTrue(x.teeAttested, crypto)),
          Check("outcome", forOutcome = x.commitments.outcome, crypto),
          Check("receipt", forReceipt = x.commitments.receipt, crypto),
          Check("savings", corroborated, ifTrue(corroborated, "trusted_claim")),
          Check("anchored", anchored, ifTrue(anchored, crypto)),
          Check("environment", x.environment \in Environment, crypto) }
  BY DEF Checks
<1> HIDE DEF forCase, forAction, forExecution, forOutcome, forReceipt, corroborated, anchored,
             approved, checks, ifTrue, crypto, unknown
<1>2. ASSUME NEW check \in checks
      PROVE  /\ check.strength \in {crypto, unknown, "trusted_claim"}
             /\ check.question = "attested" =>
                  check.result = x.teeAttested /\ check.strength = ifTrue(x.teeAttested, crypto)
             /\ check.question = "anchored" =>
                  check.result = anchored /\ check.strength = ifTrue(anchored, crypto)
             /\ check.question = "savings" =>
                  check.strength = ifTrue(corroborated, "trusted_claim")
  BY <1>1, <1>2 DEF Check, ifTrue
<1>3. /\ Check("savings", corroborated, ifTrue(corroborated, "trusted_claim")) \in checks
      /\ Check("attested", x.teeAttested, ifTrue(x.teeAttested, crypto)) \in checks
      /\ Check("anchored", anchored, ifTrue(anchored, crypto)) \in checks
  BY <1>1
<1>4. ASSUME NEW check \in checks, check.strength = crypto PROVE check.result
  BY <1>4 DEF Verifies, AllCryptographicChecksPassed, checks, crypto
<1>5. \A row : row \in rows <=> \E check \in checks : row = <<check.question, BadgeFor(check)>>
  BY DEF Rows
<1>6. ASSUME NEW check \in checks
      PROVE  /\ BadgeFor(check) # "Failed"
             /\ check.strength \in {unknown, "trusted_claim"} => BadgeFor(check) # "Verified"
             /\ check.strength = crypto => BadgeFor(check) = "Verified"
             /\ check.strength = "trusted_claim" <=> BadgeFor(check) = "Trusted claim"
  BY <1>2, <1>4 DEF BadgeFor, crypto, unknown
<1>7. corroborated <=> <<"savings", "Trusted claim">> \in rows
  <2>1. CASE corroborated
    <3> DEFINE check == Check("savings", corroborated, ifTrue(corroborated, "trusted_claim"))
    <3>1. check.question = "savings" /\ check.strength = "trusted_claim"
      BY <2>1 DEF Check, ifTrue
    <3>2. BadgeFor(check) = "Trusted claim"
      BY <1>3, <1>6, <3>1
    <3> QED
      BY <1>3, <1>5, <2>1, <3>1, <3>2
  <2>2. CASE ~corroborated
    <3>1. ASSUME NEW check \in checks, check.question = "savings"
          PROVE  BadgeFor(check) # "Trusted claim"
      BY <1>2, <1>6, <2>2, <3>1 DEF ifTrue, unknown
    <3>2. <<"savings", "Trusted claim">> \notin rows
      <4> SUFFICES ASSUME NEW check \in checks,
                          <<"savings", "Trusted claim">> = <<check.question, BadgeFor(check)>>
                   PROVE  FALSE
        BY <1>5
      <4> QED
        BY <3>1
    <3> QED
      BY <2>2, <3>2
  <2> QED
    BY <2>1, <2>2
<1>8. x.teeAttested <=> <<"attested", "Verified">> \in rows
  <2>1. CASE x.teeAttested
    <3> DEFINE check == Check("attested", x.teeAttested, ifTrue(x.teeAttested, crypto))
    <3>1. check.question = "attested" /\ check.strength = crypto
      BY <2>1 DEF Check, ifTrue
    <3>2. BadgeFor(check) = "Verified"
      BY <1>3, <1>6, <3>1
    <3> QED
      BY <1>3, <1>5, <2>1, <3>1, <3>2
  <2>2. CASE ~x.teeAttested
    <3> SUFFICES ASSUME NEW check \in checks, check.question = "attested"
                 PROVE  BadgeFor(check) # "Verified"
      BY <1>5, <2>2
    <3> QED
      BY <1>2, <1>6, <2>2 DEF ifTrue
  <2> QED
    BY <2>1, <2>2
<1>9. anchored <=> <<"anchored", "Verified">> \in rows
  <2>1. CASE anchored
    <3> DEFINE check == Check("anchored", anchored, ifTrue(anchored, crypto))
    <3>1. check.question = "anchored" /\ check.strength = crypto
      BY <2>1 DEF Check, ifTrue
    <3>2. BadgeFor(check) = "Verified"
      BY <1>3, <1>6, <3>1
    <3> QED
      BY <1>3, <1>5, <2>1, <3>1, <3>2
  <2>2. CASE ~anchored
    <3> SUFFICES ASSUME NEW check \in checks, check.question = "anchored"
                 PROVE  BadgeFor(check) # "Verified"
      BY <1>5, <2>2
    <3> QED
      BY <1>2, <1>6, <2>2 DEF ifTrue
  <2> QED
    BY <2>1, <2>2
<1>10. <<"savings", "Verified">> \notin rows
  <2> SUFFICES ASSUME NEW check \in checks, check.question = "savings"
               PROVE  BadgeFor(check) # "Verified"
    BY <1>5
  <2> QED
    BY <1>2, <1>6 DEF ifTrue
<1> HIDE DEF rows
<1>11. /\ Card(x).execution = "Attested" <=> x.teeAttested
       /\ Card(x).chain = "Anchored" <=> anchored
       /\ Card(x).claimed = x.claimedSavingsCents
       /\ "attested" \in Proven(x) <=> x.teeAttested
       /\ "anchored" \in Proven(x) <=> anchored
  BY DEF Card, Proven, anchored
<1>12. /\ x.claimedSavingsCents = a.outcome.claimedSavingsCents
       /\ x.verifiedSavingsCents = a.outcome.verifiedSavingsCents
       /\ x.teeAttested = a.execution.teeAttested
  <2>1. x.commitments.execution = forExecution /\ x.commitments.outcome = forOutcome
    BY Verdict
       DEF Verifies, FromSandbox, Environment, forCase, forAction, forExecution, forOutcome
  <2>2. /\ forOutcome.sha256.artifact.claimedSavingsCents = a.outcome.claimedSavingsCents
        /\ forOutcome.sha256.artifact.verifiedSavingsCents = a.outcome.verifiedSavingsCents
        /\ forExecution.sha256.artifact.teeAttested = a.execution.teeAttested
    BY DEF forExecution, forOutcome, ExecutionCommitment, OutcomeCommitment, Chain, Commit
  <2> QED
    BY <2>1, <2>2 DEF FromSandbox
<1> QED
  BY <1>7, <1>8, <1>9, <1>10, <1>11, <1>12 DEF CardAgrees, rows, checks, corroborated

\* So is every receipt that is held or stored.
SandboxInv ==
  /\ \A r \in Request : receipt[r] # Null => FromSandbox(receipt[r])
  /\ \A c \in Case : store[c] # Null /\ store[c].receipt # Null =>
       FromSandbox(store[c].receipt)

\* A step of a request builds a receipt of the sandbox, or puts on one where it
\* is stored or anchored.
LEMMA ReceiptSandbox ==
  ASSUME Inv, SandboxInv, NEW r \in Request, Serve(r) \/ AnchorLost(r) \/ Throw(r)
  PROVE  \A q \in Request : receipt'[q] # Null => FromSandbox(receipt'[q])
<1>1. receipt \in [Request -> Receipt \cup {Null}]
  BY DEF Inv, TypeOK
<1>2. CASE receipt' = receipt
  BY <1>2 DEF SandboxInv
<1>3. CASE TransitionSave(r) /\ receipt' # receipt
  <2>1. receipt' = [receipt EXCEPT ![r] = BuildReceipt(r, call[r].case, Patched(r), "sandbox")]
    BY <1>3 DEF TransitionSave
  <2>2. FromSandbox(BuildReceipt(r, call[r].case, Patched(r), "sandbox"))
    BY DEF FromSandbox, BuildReceipt, ExecutionCommitment, OutcomeCommitment, Chain, Commit
  <2> QED
    BY <1>1, <2>1, <2>2 DEF SandboxInv
<1>4. CASE (Upload(r) \/ AnchorDone(r)) /\ receipt' # receipt
  <2>1. pc[r] \in {"upload", "wait"}
    BY <1>4 DEF Upload, AnchorDone
  <2>2. receipt[r] # Null /\ receipt[r] \in Receipt
    BY <2>1 DEF Inv, TypeOK, RequestOK, StepOK
  <2>3. \/ receipt' = [receipt EXCEPT ![r] = [receipt[r] EXCEPT !.storageRootHash = "root"]]
        \/ receipt' = [receipt EXCEPT ![r] = [receipt[r] EXCEPT !.chainTxHash = r]]
    BY <1>4 DEF Upload, AnchorDone
  <2>4. FromSandbox(receipt[r])
    BY <2>2 DEF SandboxInv
  <2>5. FromSandbox(receipt'[r])
    <3> DEFINE stored == [receipt[r] EXCEPT !.storageRootHash = "root"]
               anchored == [receipt[r] EXCEPT !.chainTxHash = r]
    <3>1. FromSandbox(stored) /\ FromSandbox(anchored)
      BY <2>2, <2>4 DEF Receipt, FromSandbox
    <3>2. receipt'[r] = stored \/ receipt'[r] = anchored
      BY <1>1, <2>3
    <3> QED
      BY <3>1, <3>2
  <2>6. \A q \in Request \ {r} : receipt'[q] = receipt[q]
    BY <1>1, <2>3
  <2> QED
    BY <2>2, <2>5, <2>6 DEF SandboxInv
<1> QED
  BY <1>2, <1>3, <1>4
     DEF Serve, Create, TransitionGet, Analyze, Final, Authorize, SendReturns, SendThrows,
         AnchorSubmit, AnchorSkip, AssessFee, AnchorLost, Throw, locals

\* Every step keeps that.
LEMMA NextSandbox ==
  ASSUME Inv, SandboxInv, [Next]_vars
  PROVE  SandboxInv'
<1>1. CASE \E r \in Request : Serve(r) \/ AnchorLost(r) \/ Throw(r)
  <2> PICK r \in Request : Serve(r) \/ AnchorLost(r) \/ Throw(r)
    BY <1>1
  <2>1. call[r].case \in Case
    BY HandlerStep, AtStep DEF StepOf
  <2>2. ASSUME NEW c \in Case, store'[c] # Null, store'[c].receipt # Null
        PROVE  FromSandbox(store'[c].receipt)
    <3>1. CASE store'[c] = store[c]
      BY <2>2, <3>1 DEF SandboxInv
    <3>2. CASE store'[c] # store[c]
      <4>1. Create(r) \/ TransitionSave(r) \/ Throw(r)
        BY <3>2
           DEF Serve, TransitionGet, Analyze, Final, Authorize, SendReturns, SendThrows, Upload,
               AnchorSubmit, AnchorSkip, AnchorDone, AssessFee, AnchorLost
      <4>2. \/ store'[c] = NewRecord(r)
            \/ pc[r] = "save" /\ store'[c] = Patched(r)
        BY <2>1, <3>2, <4>1 DEF Create, TransitionSave, Throw, Inv, TypeOK
      <4>3. NewRecord(r).receipt = Null
        BY DEF NewRecord
      <4> QED
        BY <2>2, <4>2, <4>3, SavedReceipt DEF SandboxInv
    <3> QED
      BY <3>1, <3>2
  <2> QED
    BY <2>2, ReceiptSandbox DEF SandboxInv
<1>2. CASE UNCHANGED <<store, receipt>>
  BY <1>2 DEF SandboxInv
<1>3. ASSUME NEW r \in Request,
             ArriveSubmit(r) \/ ArriveApprove(r) \/ ArriveReject(r) \/ Mine(r)
      PROVE  UNCHANGED <<store, receipt>>
  BY <1>3 DEF ArriveSubmit, ArriveApprove, ArriveReject, Arrive, Mine, locals
<1>4. \A i \in Instance : Crash(i) => UNCHANGED <<store, receipt>>
  BY DEF Crash, locals
<1>5. UNCHANGED vars => UNCHANGED <<store, receipt>>
  BY DEF vars, locals
<1> QED
  BY <1>1, <1>2, <1>3, <1>4, <1>5 DEF Next, Quiescent

\* SandboxInv holds throughout.
LEMMA SandboxInvariance == Spec => []SandboxInv
<1>1. Init => SandboxInv
  BY DEF Init, SandboxInv
<1> QED
  BY <1>1, NextSandbox, Invariance, PTL DEF Spec

\* The card of a success and the report under it agree.
LEMMA SuccessTold ==
  ASSUME Inv, SuccessVerifies, SandboxInv, NEW c \in Case, store[c] # Null,
         store[c].state = "VERIFIED_SUCCESS"
  PROVE  CardAgrees(store[c].receipt, store[c])
<1>1. store[c].receipt # Null /\ store[c] \in CaseRecord
  BY DEF Inv, TypeOK, RecordsConsistent, Consistent
<1>2. store[c].receipt \in Receipt
  BY <1>1 DEF CaseRecord
<1>3. store[c].receipt.teeAttested \in BOOLEAN
  BY <1>2 DEF Receipt
<1>4. Verifies(store[c])
  BY DEF SuccessVerifies, Verifies
<1>5. FromSandbox(store[c].receipt)
  BY <1>1 DEF SandboxInv
<1> QED
  BY <1>3, <1>4, <1>5, CardFollows

\* Without overlap the card that a success gets and the report that the verifier
\* makes of it tell the same, which is what the artifacts on record say, although no
\* link takes in what the card and parts of the report are made from.
THEOREM CardsTell ==
  ASSUME ~Overlap
  PROVE  Spec => []CardTellsReport
<1>1. Inv /\ SuccessVerifies /\ SandboxInv => CardTellsReport
  BY SuccessTold DEF CardTellsReport, Succeeded
<1> QED
  BY <1>1, Invariance, SuccessesVerify, SandboxInvariance, PTL

-----------------------------------------------------------------------------
(* The promise of CaseLifecycle.                                           *)

\* A step leaves a case as it is, or creates it, or makes a legal transition of
\* it from the state on record.
LEMMA CaseSteps ==
  ASSUME Inv, FeeInv, AloneInv, [Next]_vars, store' # store
  PROVE  \E r \in Request :
           LET c == call[r].case
           IN /\ c \in Case /\ sent' = sent /\ call' = call
              /\ \/ /\ store[c] = Null /\ NewRecord(r) # Null
                    /\ store' = [store EXCEPT ![c] = NewRecord(r)]
                 \/ /\ store[c] # Null /\ store[c].state \in CaseState
                    /\ event[r] \in CaseEvent /\ Legal(store[c].state, event[r])
                    /\ event[r] = "EXECUTION_SUCCEEDED" => SentOn(c) # {}
                    /\ store' = [store EXCEPT ![c] = Patched(r)]
                    /\ Patched(r) # Null
                    /\ Patched(r).state = ApplyTransition(store[c].state, event[r])
<1>1. PICK r \in Request : Create(r) \/ TransitionSave(r) \/ Throw(r)
  <2>1. ASSUME NEW q \in Request,
               \/ ArriveSubmit(q) \/ ArriveApprove(q) \/ ArriveReject(q)
               \/ TransitionGet(q) \/ Analyze(q) \/ Final(q) \/ Authorize(q)
               \/ SendReturns(q) \/ SendThrows(q) \/ Upload(q) \/ AnchorSubmit(q)
               \/ AnchorSkip(q) \/ AnchorDone(q) \/ AnchorLost(q) \/ AssessFee(q) \/ Mine(q)
        PROVE  FALSE
    BY <2>1
       DEF ArriveSubmit, ArriveApprove, ArriveReject, Arrive, TransitionGet, Analyze, Final,
           Authorize, SendReturns, SendThrows, Upload, AnchorSubmit, AnchorSkip, AnchorDone,
           AnchorLost, AssessFee, Mine
  <2>2. /\ \A i \in Instance : ~Crash(i)
        /\ ~UNCHANGED vars
    BY DEF Crash, vars
  <2> QED
    BY <2>1, <2>2 DEF Next, Serve, Quiescent
<1> DEFINE c == call[r].case
<1>2. StepOf(r) /\ InFlight(r) /\ c \in Case /\ call' = call
  BY <1>1, HandlerStep, AtStep DEF Serve, StepOf
<1>3. /\ sent' = sent
      /\ \/ pc[r] = "create" /\ store' = [store EXCEPT ![c] = NewRecord(r)]
         \/ pc[r] = "save" /\ store' = [store EXCEPT ![c] = Patched(r)]
  BY <1>1 DEF Create, TransitionSave, Throw, external
<1>4. CASE pc[r] = "create" /\ store' = [store EXCEPT ![c] = NewRecord(r)]
  <2>1. store[c] = Null /\ call[r].input \in Input
    BY <1>2, <1>4, AtStep DEF StepOK, SubmitOK, CallOK
  <2>2. NewRecord(r) \in CaseRecord
    BY <1>2, <2>1, AtStep DEF NewRecord, CaseRecord, CaseState, Arguments
  <2> QED
    BY <1>2, <1>3, <1>4, <2>1, <2>2, NullAssumption
<1>5. CASE pc[r] = "save" /\ store' = [store EXCEPT ![c] = Patched(r)]
  <2>1. /\ store[c] # Null /\ store[c].state \in CaseState /\ Legal(store[c].state, event[r])
        /\ Patched(r) # Null
        /\ Patched(r).state = ApplyTransition(store[c].state, event[r])
        /\ Prepared(r)
    BY <1>5, SavedRecord DEF CaseRecord
  <2>2. event[r] \in CaseEvent
    BY <2>1 DEF Prepared, SubmitEvents, ApproveEvents, CaseEvent
  <2>3. event[r] = "EXECUTION_SUCCEEDED" => r \in SentOn(c)
    BY <2>1 DEF Prepared, FeeInv, OutcomeOK, SentOn
  <2> QED
    BY <1>2, <1>3, <1>5, <2>1, <2>2, <2>3
<1> QED
  BY <1>3, <1>4, <1>5

\* A case in a terminal state is one that no step touches.
LEMMA TerminalStep ==
  ASSUME Inv, FeeInv, AloneInv, [Next]_vars, NEW c \in Case, store[c] # Null,
         IsTerminal(store[c].state)
  PROVE  store'[c] = store[c]
<1> SUFFICES ASSUME store' # store PROVE store'[c] = store[c]
  OBVIOUS
<1>1. PICK r \in Request :
        /\ call[r].case \in Case
        /\ \/ store[call[r].case] = Null
           \/ event[r] \in CaseEvent /\ Legal(store[call[r].case].state, event[r])
        /\ \E new : store' = [store EXCEPT ![call[r].case] = new]
  BY CaseSteps
<1>2. c # call[r].case
  BY <1>1 DEF IsTerminal, LegalEvents
<1> QED
  BY <1>1, <1>2 DEF Inv, TypeOK

\* Without overlap the record of a case in a terminal state never changes.
THEOREM TerminalStays ==
  ASSUME ~Overlap
  PROVE  Spec => TerminalIsFinal
<1>1. ASSUME Inv, FeeInv, AloneInv, [Next]_vars
      PROVE  [\A c \in Case : store[c] # Null /\ IsTerminal(store[c].state) =>
                store'[c] = store[c]]_vars
  BY <1>1, TerminalStep
<1> QED
  BY <1>1, Invariance, FeeInvariance, AloneInvariance, PTL DEF Spec, TerminalIsFinal

\* The state of a case and the cases whose message was sent, as CaseLifecycle
\* sees them.
StateOf == [c \in Case |-> IF store[c] = Null THEN "ABSENT" ELSE store[c].state]
SentCases == { call[r].case : r \in sent }

\* A step is a step of CaseLifecycle or changes nothing that it sees.
LEMMA LifecycleStep ==
  ASSUME Inv, FeeInv, AloneInv, [Next]_vars
  PROVE  [Lifecycle!Next]_(Lifecycle!vars)
<1>1. \A r \in sent : call'[r] = call[r]
  BY SentCallsStay
<1>2. CASE store' # store
  <2>1. PICK r \in Request :
           LET c == call[r].case
           IN /\ c \in Case /\ sent' = sent /\ call' = call
              /\ \/ /\ store[c] = Null /\ NewRecord(r) # Null
                    /\ store' = [store EXCEPT ![c] = NewRecord(r)]
                 \/ /\ store[c] # Null /\ store[c].state \in CaseState
                    /\ event[r] \in CaseEvent /\ Legal(store[c].state, event[r])
                    /\ event[r] = "EXECUTION_SUCCEEDED" => SentOn(c) # {}
                    /\ store' = [store EXCEPT ![c] = Patched(r)]
                    /\ Patched(r) # Null
                    /\ Patched(r).state = ApplyTransition(store[c].state, event[r])
    BY <1>2, CaseSteps
  <2>0. PICK c \in Case : c = call[r].case
    BY <2>1
  <2>2. c \in Case /\ SentCases' = SentCases
    BY <2>1 DEF SentCases
  <2>3. CASE store[c] = Null /\ NewRecord(r) # Null /\ store' = [store EXCEPT ![c] = NewRecord(r)]
    <3>1. store'[c] # Null
      BY <2>2, <2>3 DEF Inv, TypeOK
    <3>2. store'[c].state = "DRAFT"
      BY <2>2, <2>3 DEF NewRecord, Inv, TypeOK
    <3>3. StateOf' = [StateOf EXCEPT ![c] = "DRAFT"] /\ StateOf[c] = "ABSENT"
      BY <2>2, <2>3, <3>1, <3>2 DEF StateOf, Inv, TypeOK
    <3>4. Lifecycle!Create(c)
      BY <2>2, <3>3 DEF Lifecycle!Create, StateOf, SentCases
    <3>5. Lifecycle!Next
      BY <2>2, <3>4 DEF Lifecycle!Next
    <3> QED
      BY <3>5
  <2>4. CASE /\ store[c] # Null /\ store[c].state \in CaseState
             /\ event[r] \in CaseEvent /\ Legal(store[c].state, event[r])
             /\ event[r] = "EXECUTION_SUCCEEDED" => SentOn(c) # {}
             /\ store' = [store EXCEPT ![c] = Patched(r)]
             /\ Patched(r) # Null
             /\ Patched(r).state = ApplyTransition(store[c].state, event[r])
    <3>1. /\ StateOf' = [StateOf EXCEPT ![c] = ApplyTransition(StateOf[c], event[r])]
          /\ StateOf[c] = store[c].state
      BY <2>2, <2>4 DEF StateOf, Inv, TypeOK
    <3>2. event[r] = "EXECUTION_SUCCEEDED" => c \in SentCases
      BY <2>0, <2>4 DEF SentOn, SentCases
    <3>3. /\ Lifecycle!CaseState = CaseState /\ Lifecycle!CaseEvent = CaseEvent
          /\ Lifecycle!Legal(store[c].state, event[r])
          /\ Lifecycle!ApplyTransition(StateOf[c], event[r]) = ApplyTransition(StateOf[c], event[r])
      BY <2>4 DEF Lifecycle!CaseState, CaseState, Lifecycle!CaseEvent, CaseEvent, Lifecycle!Legal,
                  Legal, Lifecycle!ApplyTransition, ApplyTransition, Lifecycle!Transitions,
                  Transitions, Lifecycle!Entries, Entries
    <3>6. PICK e \in CaseEvent : e = event[r]
      BY <2>4
    <3>4. Lifecycle!Advance(c, e)
      BY <2>2, <2>4, <3>1, <3>2, <3>3, <3>6 DEF Lifecycle!Advance, StateOf, SentCases
    <3>5. Lifecycle!Next
      BY <2>2, <2>4, <3>3, <3>4 DEF Lifecycle!Next
    <3> QED
      BY <3>5
  <2> QED
    BY <2>0, <2>1, <2>3, <2>4
<1>3. CASE store' = store /\ \E r \in Request : SendReturns(r)
  <2>1. PICK r \in Request : SendReturns(r)
    BY <1>3
  <2>0. InFlight(r)
    BY <2>1 DEF SendReturns, InFlight, Steps
  <2>8. PICK c \in Case : c = call[r].case
    BY <2>0, AtStep
  <2>2. /\ c \in Case /\ sent' = sent \cup {r} /\ call' = call /\ AloneOK(r)
        /\ pc[r] = "send" /\ store[c] # Null
    BY <2>0, <2>1, <2>8, AtStep DEF SendReturns, AloneInv, StepOK, ApprovalOK
  <2>3. store[c].state = "EXECUTING" /\ SentOn(c) = {}
    BY <2>2, <2>8 DEF AloneOK
  <2>4. StateOf[c] = "EXECUTING" /\ StateOf' = StateOf
    BY <1>3, <2>2, <2>3 DEF StateOf
  <2>5. c \notin SentCases /\ SentCases' = SentCases \cup {c}
    BY <2>2, <2>3, <2>8 DEF SentCases, SentOn
  <2>6. Lifecycle!Send(c)
    BY <2>4, <2>5 DEF Lifecycle!Send, StateOf, SentCases
  <2>7. Lifecycle!Next
    BY <2>2, <2>6 DEF Lifecycle!Next
  <2> QED
    BY <2>7
<1>4. CASE store' = store /\ ~\E r \in Request : SendReturns(r)
  <2>1. sent' = sent
    <3>1. CASE \E r \in Request : AssessFee(r)
      BY <3>1 DEF AssessFee
    <3>2. CASE \E i \in Instance : Crash(i)
      BY <3>2 DEF Crash
    <3> QED
      BY <1>4, <3>1, <3>2, OtherStepsKeepFees
  <2>2. StateOf' = StateOf /\ SentCases' = SentCases
    BY <1>1, <1>4, <2>1 DEF StateOf, SentCases
  <2> QED
    BY <2>2 DEF Lifecycle!vars, StateOf, SentCases
<1> QED
  BY <1>2, <1>3, <1>4

\* Without overlap the system implements CaseLifecycle: one legal transition of
\* a case at a time, and one message, sent while the case is EXECUTING.
THEOREM PromiseKept ==
  ASSUME ~Overlap
  PROVE  Spec => ImplementsLifecycle
<1>1. Init => Lifecycle!Init
  BY DEF Init, Lifecycle!Init
<1>2. Inv /\ FeeInv /\ AloneInv /\ [Next]_vars => [Lifecycle!Next]_(Lifecycle!vars)
  BY LifecycleStep
<1> QED
  BY <1>1, <1>2, Invariance, FeeInvariance, AloneInvariance, PTL
     DEF Spec, ImplementsLifecycle, Lifecycle!Spec

-----------------------------------------------------------------------------
(* Approvals that do not overlap, whatever rejections do.                  *)

\* Only an approval sends and settles.
LEMMA Approves ==
  ASSUME Inv, NEW r \in Request, ToSend(r) \/ Settles(r)
  PROVE  InFlight(r) /\ call[r].kind = "approve"
<1>1. InFlight(r)
  BY DEF ToSend, Settles, InFlight, Steps
<1> QED
  BY <1>1, AtStep DEF ToSend, Settles, StepOK, Prepared, ApproveEvents

\* Nothing was sent on a case while submitCase runs: nobody knows its id.
LEMMA SubmitsUnsent ==
  ASSUME Inv, NEW r \in Request, InFlight(r), Submits(r)
  PROVE  SentOn(call[r].case) = {}
<1> SUFFICES ASSUME NEW q \in SentOn(call[r].case) PROVE FALSE
  OBVIOUS
<1>1. /\ q \in Request /\ call[q].case = call[r].case
      /\ Called(q) /\ call[q].kind = "approve"
  BY DEF SentOn, Inv, TypeOK, RequestOK, SentOK, ApprovalOK
<1>2. PICK s \in Request : pc[s] = "done" /\ Submits(s) /\ call[s].case = call[r].case
  BY <1>1 DEF Inv, OneSubmit, Known, Submits
<1>3. s = r
  BY <1>2, AtStep DEF Inv, OneSubmit, Called
<1> QED
  BY <1>2, <1>3 DEF InFlight, Steps

\* A rejection leaves the record as it is or puts REJECTED in its place.
LEMMA RejectStep ==
  ASSUME Inv, NEW r \in Request, call[r].kind = "reject",
         Serve(r) \/ AnchorLost(r) \/ Throw(r)
  PROVE  LET c == call[r].case
         IN /\ sent' = sent
            /\ \/ store'[c] = store[c]
               \/ store'[c] # Null /\ store'[c].state = "REJECTED"
<1>1. InFlight(r) /\ call[r].case \in Case
  BY HandlerStep, AtStep DEF StepOf
<1>2. /\ pc[r] \notin {"create", "analyze", "send", "upload", "anchor", "wait", "fee"}
      /\ pc[r] \in {"get", "save"} => event[r] = "REJECT"
  BY <1>1, AtStep DEF StepOK, Prepared, Submits, SubmitEvents, ApproveEvents
<1>3. /\ sent' = sent
      /\ \/ store' = store
         \/ pc[r] = "save" /\ store' = [store EXCEPT ![call[r].case] = Patched(r)]
  <2>1. CASE pc[r] = "save"
    <3>1. TransitionSave(r) \/ Throw(r)
      BY <2>1 DEF Serve, Create, TransitionGet, Analyze, Final, Authorize, SendReturns, SendThrows,
                  Upload, AnchorSubmit, AnchorSkip, AnchorDone, AnchorLost, AssessFee
    <3> QED
      BY <2>1, <3>1 DEF TransitionSave, Throw, external
  <2>2. CASE pc[r] # "save"
    <3>1. TransitionGet(r) \/ Final(r) \/ Authorize(r) \/ Throw(r)
      BY <1>2, <2>2 DEF Serve, Create, TransitionSave, Analyze, SendReturns, SendThrows,
                        Upload, AnchorSubmit, AnchorSkip, AnchorDone, AnchorLost, AssessFee
    <3> QED
      BY <1>2, <2>2, <3>1 DEF TransitionGet, Final, Authorize, Throw, external
  <2> QED
    BY <2>1, <2>2
<1>4. pc[r] = "save" => Patched(r) # Null /\ Patched(r).state = "REJECTED"
  <2> SUFFICES ASSUME pc[r] = "save" PROVE Patched(r) # Null /\ Patched(r).state = "REJECTED"
    OBVIOUS
  <2>1. read[r] \in CaseRecord /\ read[r].state \in CaseState /\ Legal(read[r].state, "REJECT")
    BY <1>1, <1>2, AtStep DEF ReadOK, Inv, TypeOK, CaseRecord
  <2> QED
    BY <1>2, <2>1, PatchedFields, TransitionTable, NullAssumption
<1> QED
  BY <1>1, <1>3, <1>4 DEF Inv, TypeOK

\* A step of a request keeps OnceInv if it keeps what that says of the request and
\* of its case: any other approval at work there has only a rejection beside it.
LEMMA OnceFrame ==
  ASSUME Inv, OnceInv, ApprovalsApart, NEW r \in Request,
         Serve(r) \/ AnchorLost(r) \/ Throw(r), ApproverOK(r)', OnceOK(call[r].case)'
  PROVE  OnceInv'
<1>1. /\ StepOf(r) /\ InFlight(r) /\ call' = call /\ call[r].case \in Case
      /\ \A q \in Request \ {r} : Unmoved(q)
      /\ sent \subseteq sent' /\ sent' \subseteq sent \cup {r} /\ sent \subseteq Request
  BY HandlerStep, AtStep DEF StepOf, Inv, TypeOK
<1>2. ASSUME NEW c \in Case, c # call[r].case
      PROVE  SentOn(c)' = SentOn(c) /\ store'[c] = store[c]
  BY <1>1, <1>2 DEF SentOn, StepOf
<1>3. ASSUME NEW q \in Request PROVE ApproverOK(q)'
  <2>1. CASE q = r
    BY <2>1
  <2>2. CASE q # r /\ ~(ToSend(q) \/ Settles(q))
    BY <1>1, <2>2 DEF ApproverOK, ToSend, Settles, Unmoved
  <2>3. CASE q # r /\ (ToSend(q) \/ Settles(q))
    <3>1. /\ ApproverOK(q) /\ Unmoved(q) /\ InFlight(q) /\ call[q].kind = "approve"
          /\ call[q].case \in Case
          /\ (ToSend(q)' <=> ToSend(q)) /\ (Settles(q)' <=> Settles(q))
      BY <1>1, <2>3, Approves, AtStep DEF OnceInv, Unmoved, ToSend, Settles
    <3>2. \/ /\ SentOn(call[q].case)' = SentOn(call[q].case)
             /\ store'[call[q].case] = store[call[q].case]
          \/ /\ SentOn(call[q].case)' = SentOn(call[q].case)
             /\ store'[call[q].case] # Null /\ store'[call[q].case].state = "REJECTED"
      <4>1. CASE call[q].case # call[r].case
        <5>1. \A c \in Case : c # call[r].case => SentOn(c)' = SentOn(c) /\ store'[c] = store[c]
          BY <1>2
        <5>2. PICK c : c = call[q].case
          OBVIOUS
        <5>3. SentOn(c)' = SentOn(c) /\ store'[c] = store[c]
          BY <3>1, <4>1, <5>1, <5>2
        <5>4. call[q].case' = c
          BY <1>1, <5>2
        <5> QED
          BY <5>2, <5>3, <5>4
      <4>2. CASE call[q].case = call[r].case
        <5>1. call[r].kind # "approve"
          BY <1>1, <2>3, <3>1, <4>2 DEF ApprovalsApart
        <5>2. ~Submits(r)
          BY <1>1, <3>1, <4>2, AtStep DEF Inv, OneSubmit, Known, Submits, InFlight, Steps, Called
        <5>3. call[r].kind = "reject"
          BY <1>1, <5>1, <5>2, AtStep DEF Submits, Arguments
        <5> QED
          BY <1>1, <4>2, <5>3, RejectStep DEF SentOn
      <4> QED
        BY <4>1, <4>2
    <3>3. AllCryptographicChecksPassed(receipt[q], store[call[q].case]) =>
            (store'[call[q].case] = store[call[q].case] =>
               AllCryptographicChecksPassed(receipt[q], store[call[q].case])')
      BY <1>1, <3>1 DEF Unmoved
    <3>4. AllCryptographicChecksPassed(receipt[q], read[q]) =>
            AllCryptographicChecksPassed(receipt[q], read[q])'
      BY <3>1 DEF Unmoved
    <3> QED
      BY <1>1, <3>1, <3>2, <3>3, <3>4 DEF ApproverOK, Unmoved
  <2> QED
    BY <2>1, <2>2, <2>3
<1>4. ASSUME NEW c \in Case PROVE OnceOK(c)'
  <2>1. CASE c = call[r].case
    BY <2>1, <1>1
  <2>2. CASE c # call[r].case
    <3>1. store'[c] = store[c] /\ SentOn(c)' = SentOn(c) /\ OnceOK(c)
      BY <1>2, <2>2 DEF OnceInv
    <3>2. \A q \in SentOn(c) : pc'[q] = pc[q] /\ receipt'[q] = receipt[q] /\ q \in SentOn(c)'
      BY <1>1, <2>2, <3>1 DEF SentOn, Unmoved
    <3>3. AllCryptographicChecksPassed(store[c].receipt, store[c]) =>
            AllCryptographicChecksPassed(store[c].receipt, store[c])'
      BY <3>1
    <3> QED
      BY <3>1, <3>2, <3>3 DEF OnceOK
  <2> QED
    BY <2>1, <2>2
<1> QED
  BY <1>3, <1>4 DEF OnceInv

\* A step that changes neither the record nor what was sent, of a case on which no
\* request that ended moves.
LEMMA OnceStays ==
  ASSUME NEW c \in Case, OnceOK(c), store'[c] = store[c], SentOn(c)' = SentOn(c),
         \A q \in SentOn(c) : pc[q] \in {"done", "failed"} =>
                                pc'[q] = pc[q] /\ receipt'[q] = receipt[q]
  PROVE  OnceOK(c)'
<1>1. AllCryptographicChecksPassed(store[c].receipt, store[c]) =>
        AllCryptographicChecksPassed(store[c].receipt, store[c])'
  OBVIOUS
<1>2. \A q \in SentOn(c) : q \in SentOn(c)'
  OBVIOUS
<1> QED
  BY <1>1, <1>2 DEF OnceOK

\* What a request of which nothing is asked keeps.
LEMMA QuietOnce ==
  ASSUME Inv, OnceInv, ApprovalsApart, NEW r \in Request,
         Serve(r) \/ AnchorLost(r) \/ Throw(r), store' = store, sent' = sent, ApproverOK(r)'
  PROVE  OnceInv'
<1> DEFINE c == call[r].case
<1>1. /\ InFlight(r) /\ call' = call /\ c \in Case /\ sent \subseteq Request
      /\ \A q \in Request \ {r} : Unmoved(q)
  BY HandlerStep, AtStep DEF StepOf, Inv, TypeOK
<1>2. SentOn(c)' = SentOn(c) /\ OnceOK(c) /\ c' = c
  BY <1>1 DEF SentOn, OnceInv
<1>3. \A q \in SentOn(c) : pc[q] \in {"done", "failed"} =>
                             pc'[q] = pc[q] /\ receipt'[q] = receipt[q]
  BY <1>1 DEF SentOn, Unmoved, InFlight, Steps
<1> HIDE DEF c
<1>4. OnceOK(c)'
  BY <1>1, <1>2, <1>3, OnceStays
<1> QED
  BY <1>2, <1>4, OnceFrame DEF c

\* A case is approved, and its execution begun, before its message is sent; a receipt
\* is stored over the record that it was built from.
LEMMA GetOnce ==
  ASSUME Inv, OnceInv, ApprovalsApart, NEW r \in Request, TransitionGet(r)
  PROVE  OnceInv'
<1> DEFINE c == call[r].case
<1>1. /\ pc[r] = "get" /\ event' = event /\ call' = call /\ InFlight(r) /\ c \in Case
      /\ UNCHANGED <<store, sent, receipt>>
      /\ \/ pc'[r] = "failed"
         \/ /\ pc'[r] = "save" /\ read'[r] = store[c]
            /\ store[c] # Null /\ Legal(store[c].state, event[r])
  BY HandlerStep, AtStep
     DEF Serve, StepOf, TransitionGet, Goto, external, locals, Inv, TypeOK
<1>2. /\ ApproverOK(r) /\ OnceOK(c) /\ c' = c /\ SentOn(c)' = SentOn(c)
      /\ Settles(r)' => Settles(r)
      /\ ToSend(r)' => ToSend(r) \/ event[r] = "APPROVE"
  BY <1>1 DEF OnceInv, SentOn, Settles, ToSend
<1>3. pc'[r] = "save" /\ event[r] = "APPROVE" => SentOn(c) = {}
  BY <1>1, <1>2, AtStep, TransitionTable DEF OnceOK, AfterSend, CaseRecord
<1>4. pc'[r] = "save" /\ event[r] = "OUTCOME_CONFIRMED" => store[c].state = "OUTCOME_PENDING"
  BY <1>1, AtStep, TransitionTable DEF CaseRecord
<1>5. Settles(r)' => pc'[r] = "save" /\ event[r] = "OUTCOME_CONFIRMED"
  BY <1>1 DEF Settles
<1>6. Settles(r)' => AllCryptographicChecksPassed(receipt[r], store[c])
  BY <1>2, <1>4, <1>5 DEF ApproverOK
<1>7. AllCryptographicChecksPassed(receipt[r], store[c]) =>
        /\ AllCryptographicChecksPassed(receipt[r], store[c])'
        /\ pc'[r] = "save" => AllCryptographicChecksPassed(receipt[r], read[r])'
  BY <1>1, <1>2
<1>8. pc'[r] # "send"
  BY <1>1
<1>9. ApproverOK(r)'
  <2>1. ToSend(r)' => SentOn(c)' = {}
    BY <1>1, <1>2, <1>3 DEF ApproverOK, ToSend
  <2>2. Settles(r)' =>
          /\ r \in sent /\ store[c] # Null /\ store[c].state \in {"OUTCOME_PENDING", "REJECTED"}
          /\ AllCryptographicChecksPassed(receipt[r], store[c])'
          /\ pc'[r] = "save" => AllCryptographicChecksPassed(receipt[r], read[r])'
    BY <1>2, <1>6, <1>7 DEF ApproverOK
  <2> QED
    BY <1>1, <1>8, <2>1, <2>2 DEF ApproverOK
<1> QED
  BY <1>1, <1>9, QuietOnce DEF Serve

\* The steps at whose end the request counts on nothing on record.
LEMMA PlainOnce ==
  ASSUME Inv, OnceInv, ApprovalsApart, NEW r \in Request,
         \/ Analyze(r) \/ Final(r) \/ Authorize(r) \/ SendThrows(r)
         \/ Throw(r) /\ store' = store
  PROVE  OnceInv'
<1>1. store' = store /\ sent' = sent
  BY DEF Analyze, Final, Authorize, SendThrows, Throw, external
<1>2. /\ pc'[r] \in {"get", "done", "failed"}
      /\ pc'[r] = "get" => event'[r] \notin {"BEGIN_EXECUTION", "OUTCOME_CONFIRMED"}
  BY DEF Analyze, Final, Authorize, SendThrows, Throw, Transition, Goto, Inv, TypeOK
<1>3. ApproverOK(r)'
  BY <1>2 DEF ApproverOK, ToSend, Settles
<1> QED
  BY <1>1, <1>3, QuietOnce DEF Serve

\* What becomes of the receipt before it is stored leaves it verifying.
LEMMA SettlingOnce ==
  ASSUME Inv, OnceInv, ApprovalsApart, TypeOK', NEW r \in Request,
         \/ Upload(r) \/ AnchorSubmit(r) \/ AnchorSkip(r) \/ AnchorDone(r) \/ AnchorLost(r)
         \/ AssessFee(r)
  PROVE  OnceInv'
<1>1. /\ call' = call /\ Settles(r) /\ Settles(r)' /\ ~ToSend(r)' /\ pc'[r] \notin {"save", "send"}
      /\ UNCHANGED <<store, sent>>
      /\ \A a : AllCryptographicChecksPassed(receipt[r], a) =>
                AllCryptographicChecksPassed(receipt'[r], a)
  <2>1. CASE AssessFee(r)
    <3>1. /\ pc[r] = "fee" /\ pc'[r] = "get" /\ event'[r] = "OUTCOME_CONFIRMED"
          /\ UNCHANGED <<store, sent, call, receipt>>
      BY <2>1 DEF AssessFee, Transition, locals, Inv, TypeOK
    <3> QED
      BY <3>1 DEF Settles, ToSend
  <2>2. CASE ~AssessFee(r)
    BY <2>2, SettlingReceipt DEF Settles, ToSend
  <2> QED
    BY <2>1, <2>2
<1>2. ApproverOK(r)
  BY DEF OnceInv
<1>3. AllCryptographicChecksPassed(receipt[r], store[call[r].case]) =>
        AllCryptographicChecksPassed(receipt[r], store[call[r].case])'
  BY <1>1
<1>4. ApproverOK(r)'
  BY <1>1, <1>2, <1>3 DEF ApproverOK
<1> QED
  BY <1>1, <1>4, QuietOnce DEF Serve

\* sendAction sends the first message of the case.
LEMMA SendOnce ==
  ASSUME Inv, OnceInv, ApprovalsApart, NEW r \in Request, SendReturns(r)
  PROVE  OnceInv'
<1> DEFINE c == call[r].case
<1>1. /\ pc[r] = "send" /\ call' = call /\ store' = store /\ sent' = sent \cup {r}
      /\ pc'[r] = "get" /\ event'[r] \in {"EXECUTION_FAILED", "EXECUTION_SUCCEEDED"}
  BY DEF SendReturns, Transition, Inv, TypeOK
<1>2. /\ InFlight(r) /\ c \in Case /\ store[c] # Null /\ Consistent(store[c])
      /\ sent \subseteq Request
  BY <1>1, AtStep DEF InFlight, Steps, StepOK, ApprovalOK, Inv, TypeOK
<1>3. SentOn(c) = {} /\ store[c].state \in {"EXECUTING", "REJECTED"}
  BY <1>1 DEF OnceInv, ApproverOK, ToSend
<1>4. store[c].receipt = Null
  BY <1>2, <1>3 DEF Consistent
<1>5. SentOn(c)' = {r} /\ c' = c
  BY <1>1, <1>3 DEF SentOn
<1>6. ApproverOK(r)'
  BY <1>1 DEF ApproverOK, ToSend, Settles
<1> HIDE DEF c
<1>7. OnceOK(c)'
  BY <1>1, <1>2, <1>3, <1>4, <1>5 DEF OnceOK, AfterSend
<1> QED
  BY <1>5, <1>6, <1>7, OnceFrame DEF Serve, c

\* What a save leaves on record. Only the save that closes a case stores a receipt.
LEMMA SavedOnce ==
  ASSUME Inv, FeeInv, OnceInv, TypeOK', NEW r \in Request,
         \/ TransitionSave(r)
         \/ Throw(r) /\ pc[r] = "save",
         store' = [store EXCEPT ![call[r].case] = Patched(r)]
  PROVE  OnceOK(call[r].case)'
<1> DEFINE c == call[r].case
           old == read[r]
           new == Patched(r)
<1>1. /\ pc[r] = "save" /\ InFlight(r) /\ call' = call /\ c \in Case /\ sent' = sent
      /\ store'[c] = new /\ sent \subseteq Request
      /\ pc'[r] \notin {"idle"} /\ \A q \in Request \ {r} : Unmoved(q)
  BY HandlerStep, AtStep DEF Serve, StepOf, TransitionSave, Throw, external, Inv, TypeOK
<1>2. SentOn(c)' = SentOn(c) /\ c' = c /\ OnceOK(c) /\ ApproverOK(r)
  BY <1>1 DEF SentOn, OnceInv
<1>3. /\ old \in CaseRecord /\ old.state \in CaseState /\ Legal(old.state, event[r])
      /\ Prepared(r) /\ StepOK(r)
      /\ new \in CaseRecord /\ new # Null /\ Consistent(new)
      /\ new.state = ApplyTransition(old.state, event[r])
      /\ new.receipt = IF event[r] = "OUTCOME_CONFIRMED" THEN receipt[r] ELSE Null
  BY <1>1, AtStep, PatchedFields, PatchedConsistent, SavedReceipt, NullAssumption
     DEF ReadOK, StepOK, Inv, TypeOK, CaseRecord
<1>4. \/ event[r] \in SubmitEvents /\ Submits(r)
      \/ event[r] \in {"APPROVE", "BEGIN_EXECUTION"} /\ ToSend(r)
      \/ /\ event[r] \in {"EXECUTION_SUCCEEDED", "EXECUTION_FAILED", "REJECT"}
         /\ new.state \in {"OUTCOME_PENDING", "EXECUTION_FAILED", "REJECTED"}
      \/ event[r] = "OUTCOME_CONFIRMED" /\ new.state = "VERIFIED_SUCCESS" /\ Settles(r)
  BY <1>1, <1>3, TransitionTable DEF Prepared, ApproveEvents, ToSend, Settles
<1>5. event[r] # "OUTCOME_CONFIRMED" => new.state # "VERIFIED_SUCCESS" /\ new.receipt = Null
  BY <1>3 DEF Consistent
<1> HIDE DEF new, old
<1>6. SentOn(c) # {} => new.state \in AfterSend \cup {"REJECTED"}
  BY <1>1, <1>2, <1>4, SubmitsUnsent DEF ApproverOK, AfterSend
<1>7. ASSUME event[r] # "OUTCOME_CONFIRMED" PROVE OnceOK(c)'
  <2>1. /\ store'[c] # Null /\ store'[c].state # "VERIFIED_SUCCESS" /\ store'[c].receipt = Null
        /\ SentOn(c)' # {} => store'[c].state \in AfterSend \cup {"REJECTED"}
    BY <1>1, <1>2, <1>3, <1>5, <1>6, <1>7
  <2>2. \A p, q \in SentOn(c)' : p = q
    BY <1>2 DEF OnceOK
  <2> HIDE DEF c
  <2> QED
    BY <1>2, <2>1, <2>2 DEF OnceOK, AfterSend
<1>8. ASSUME event[r] = "OUTCOME_CONFIRMED" PROVE OnceOK(c)'
  <2>1. /\ new.input = old.input /\ new.proposal = old.proposal /\ new.approval = old.approval
        /\ new.execution = old.execution /\ new.outcome = old.outcome
    <3>1. new = [old EXCEPT !.receipt = receipt[r], !.state = ApplyTransition(old.state, event[r])]
      BY <1>3, <1>8 DEF Patched, Patch, CaseRecord, old, new
    <3> QED
      BY <1>3, <3>1 DEF CaseRecord
  <2>2. receipt[r] # Null /\ new.receipt = receipt[r]
    BY <1>3, <1>8 DEF Prepared
  <2>3. receipt[r].teeAttested \in BOOLEAN /\ receipt[r].environment \in Environment
    BY <2>2 DEF Inv, TypeOK, Receipt
  <2>4. r \in sent /\ AllCryptographicChecksPassed(receipt[r], old)
    BY <1>1, <1>2, <1>8 DEF ApproverOK, Settles, old
  <2>5. AllCryptographicChecksPassed(new.receipt, new)
    BY <2>1, <2>2, <2>3, <2>4, SameVerdict
  <2>6. AllCryptographicChecksPassed(store[c].receipt, store[c])'
    BY <1>1, <1>2, <2>5
  <2>7. pc'[r] \in {"done", "failed"} /\ receipt'[r] = receipt[r]
    BY <1>8 DEF TransitionSave, Continue, Throw, Goto, locals, Inv, TypeOK
  <2>8. r \in SentOn(c)
    BY <2>4 DEF SentOn
  <2> HIDE DEF c
  <2> QED
    BY <1>1, <1>2, <1>3, <1>6, <2>2, <2>6, <2>7, <2>8 DEF OnceOK
<1> QED
  BY <1>7, <1>8

\* A save, and what the request counts on next.
LEMMA SaveOnce ==
  ASSUME Inv, FeeInv, OnceInv, ApprovalsApart, TypeOK', NEW r \in Request, TransitionSave(r)
  PROVE  OnceInv'
<1> DEFINE c == call[r].case
           new == Patched(r)
<1>1. /\ pc[r] = "save" /\ InFlight(r) /\ call' = call /\ c \in Case /\ sent' = sent
      /\ store' = [store EXCEPT ![c] = new] /\ store'[c] = new
  BY HandlerStep, AtStep DEF Serve, StepOf, TransitionSave, external, Inv, TypeOK
<1>2. OnceOK(c)'
  BY <1>1, SavedOnce
<1>3. /\ ToSend(r)' => event[r] \in {"APPROVE", "BEGIN_EXECUTION"}
      /\ pc'[r] = "send" => event[r] = "BEGIN_EXECUTION"
      /\ Settles(r)' => event[r] = "EXECUTION_SUCCEEDED"
      /\ pc'[r] # "save"
      /\ event[r] = "EXECUTION_SUCCEEDED" => receipt'[r] = BuildReceipt(r, c, new, "sandbox")
  BY <1>1 DEF TransitionSave, Continue, Transition, Goto, Settles, ToSend, Inv, TypeOK
<1>4. /\ ApproverOK(r) /\ SentOn(c)' = SentOn(c) /\ c' = c
      /\ ToSend(r)' => ToSend(r)
  BY <1>1, <1>3 DEF OnceInv, SentOn, ToSend
<1>5. /\ read[r].state \in CaseState /\ Legal(read[r].state, event[r]) /\ Prepared(r)
      /\ new \in CaseRecord /\ Consistent(new) /\ new # Null
      /\ new.state = ApplyTransition(read[r].state, event[r])
  BY <1>1, AtStep, PatchedFields, PatchedConsistent, NullAssumption
     DEF ReadOK, StepOK, Inv, TypeOK, CaseRecord
<1>6. /\ event[r] = "BEGIN_EXECUTION" => new.state = "EXECUTING"
      /\ event[r] = "EXECUTION_SUCCEEDED" => new.state = "OUTCOME_PENDING"
  BY <1>5, TransitionTable
<1> HIDE DEF new
<1>7. event[r] = "EXECUTION_SUCCEEDED" =>
        r \in sent /\ AllCryptographicChecksPassed(receipt'[r], new)
  <2> SUFFICES ASSUME event[r] = "EXECUTION_SUCCEEDED"
               PROVE  r \in sent /\ AllCryptographicChecksPassed(receipt'[r], new)
    OBVIOUS
  <2>1. r \in sent
    BY <1>5 DEF Prepared, FeeInv, OutcomeOK
  <2>2. /\ new.proposal # Null /\ new.approval # Null
        /\ new.execution # Null /\ new.outcome # Null
    BY <1>5, <1>6 DEF Consistent
  <2>3. AllCryptographicChecksPassed(BuildReceipt(r, c, new, "sandbox"), new)
    BY <1>1, <1>5, <2>2, BuiltVerifies DEF CaseRecord
  <2> QED
    BY <1>3, <2>1, <2>3
<1>8. Settles(r)' => /\ r \in sent /\ new.state = "OUTCOME_PENDING"
                     /\ AllCryptographicChecksPassed(receipt[r], store[c])'
  BY <1>1, <1>3, <1>4, <1>6, <1>7
<1>9. ApproverOK(r)'
  <2>1. ToSend(r)' => SentOn(c)' = {}
    BY <1>4 DEF ApproverOK
  <2> QED
    BY <1>1, <1>3, <1>4, <1>5, <1>6, <1>8, <2>1 DEF ApproverOK
<1> QED
  BY <1>2, <1>4, <1>9, OnceFrame DEF Serve

\* A new case has had no message.
LEMMA CreateOnce ==
  ASSUME Inv, OnceInv, ApprovalsApart, NEW r \in Request, pc[r] = "create",
         Create(r) \/ Throw(r), store' = [store EXCEPT ![call[r].case] = NewRecord(r)]
  PROVE  OnceInv'
<1> DEFINE c == call[r].case
<1>1. /\ InFlight(r) /\ c \in Case /\ call' = call /\ sent' = sent
      /\ store'[c] = NewRecord(r) /\ SentOn(c) = {}
      /\ \/ pc'[r] = "failed"
         \/ pc'[r] = "get" /\ event'[r] = "SUBMIT"
  <2>1. InFlight(r)
    BY DEF InFlight, Steps
  <2>2. c \in Case /\ Submits(r)
    BY <2>1, AtStep DEF StepOK
  <2>3. /\ call' = call /\ sent' = sent
        /\ \/ pc'[r] = "failed"
           \/ pc'[r] = "get" /\ event'[r] = "SUBMIT"
    BY DEF Create, Throw, Transition, Goto, external, Inv, TypeOK
  <2> QED
    BY <2>1, <2>2, <2>3, SubmitsUnsent DEF Inv, TypeOK
<1>2. SentOn(c)' = {} /\ c' = c
  BY <1>1 DEF SentOn
<1>3. store'[c].state = "DRAFT" /\ store'[c].receipt = Null
  BY <1>1 DEF NewRecord
<1>4. ApproverOK(r)'
  BY <1>1 DEF ApproverOK, ToSend, Settles
<1> HIDE DEF c
<1>5. OnceOK(c)'
  BY <1>2, <1>3 DEF OnceOK
<1> QED
  BY <1>2, <1>4, <1>5, OnceFrame DEF Serve, c

\* A store call that fails, its write made or not.
LEMMA ThrowOnce ==
  ASSUME Inv, FeeInv, OnceInv, ApprovalsApart, TypeOK', NEW r \in Request, Throw(r)
  PROVE  OnceInv'
<1>1. CASE store' = store
  BY <1>1, PlainOnce
<1>2. CASE pc[r] = "create" /\ store' = [store EXCEPT ![call[r].case] = NewRecord(r)]
  BY <1>2, CreateOnce
<1>3. CASE pc[r] = "save" /\ store' = [store EXCEPT ![call[r].case] = Patched(r)]
  <2>1. OnceOK(call[r].case)'
    BY <1>3, SavedOnce
  <2>2. pc'[r] = "failed"
    BY DEF Throw, Goto, Inv, TypeOK
  <2>3. ApproverOK(r)'
    BY <2>2 DEF ApproverOK, ToSend, Settles
  <2> QED
    BY <2>1, <2>3, OnceFrame
<1> QED
  BY <1>1, <1>2, <1>3 DEF Throw

\* Arrivals, a crash and the chain change no record and send nothing.
LEMMA OtherOnce ==
  ASSUME Inv, OnceInv, UNCHANGED <<store, event, sent, receipt>>,
         \A q \in Request :
           \/ pc'[q] = pc[q] /\ read'[q] = read[q] /\ call'[q] = call[q]
           \/ /\ pc[q] \notin {"done", "failed"} /\ pc'[q] \in {"create", "authorize", "failed"}
              /\ q \in sent => call'[q] = call[q]
  PROVE  OnceInv'
<1>1. sent \subseteq Request
  BY DEF Inv, TypeOK
<1>2. \A q \in sent : call'[q] = call[q]
  BY <1>1
<1>3. \A d : SentOn(d)' = SentOn(d)
  BY <1>2 DEF SentOn
<1>4. ASSUME NEW q \in Request PROVE ApproverOK(q)'
  <2>1. CASE pc'[q] \in {"create", "authorize", "failed"}
    BY <2>1 DEF ApproverOK, ToSend, Settles
  <2>2. CASE pc'[q] \notin {"create", "authorize", "failed"}
    <3>1. /\ ApproverOK(q) /\ pc'[q] = pc[q] /\ read'[q] = read[q] /\ call'[q] = call[q]
          /\ (ToSend(q)' <=> ToSend(q)) /\ (Settles(q)' <=> Settles(q))
      BY <2>2 DEF OnceInv, ToSend, Settles
    <3>2. /\ AllCryptographicChecksPassed(receipt[q], store[call[q].case]) =>
               AllCryptographicChecksPassed(receipt[q], store[call[q].case])'
          /\ AllCryptographicChecksPassed(receipt[q], read[q]) =>
               AllCryptographicChecksPassed(receipt[q], read[q])'
      BY <3>1
    <3> QED
      BY <1>3, <3>1, <3>2 DEF ApproverOK
  <2> QED
    BY <2>1, <2>2
<1>5. ASSUME NEW c \in Case PROVE OnceOK(c)'
  <2>1. \A q \in SentOn(c) : pc[q] \in {"done", "failed"} =>
                               pc'[q] = pc[q] /\ receipt'[q] = receipt[q]
    BY <1>1 DEF SentOn
  <2> QED
    BY <1>3, <2>1, OnceStays DEF OnceInv
<1> QED
  BY <1>4, <1>5 DEF OnceInv

\* Every step keeps OnceInv while approvals are apart.
LEMMA NextOnce ==
  ASSUME Inv, FeeInv, OnceInv, ApprovalsApart, [Next]_vars
  PROVE  OnceInv'
<1>1. TypeOK'
  BY NextInv DEF Inv
<1>2. ASSUME NEW r \in Request, Create(r) PROVE OnceInv'
  BY <1>2, CreateOnce DEF Create
<1>3. ASSUME NEW r \in Request, Serve(r) \/ AnchorLost(r) \/ Throw(r)
      PROVE  OnceInv'
  BY <1>1, <1>2, <1>3, GetOnce, SaveOnce, PlainOnce, SendOnce, SettlingOnce, ThrowOnce DEF Serve
<1>4. ASSUME NEW r \in Request, ArriveSubmit(r) \/ ArriveApprove(r) \/ ArriveReject(r)
      PROVE  OnceInv'
  <2>1. /\ pc[r] = "idle" /\ pc'[r] \in {"create", "authorize"}
        /\ \A q \in Request \ {r} : pc'[q] = pc[q] /\ call'[q] = call[q]
        /\ UNCHANGED <<store, event, sent, receipt, read>>
    BY <1>4 DEF ArriveSubmit, ArriveApprove, ArriveReject, Arrive, external, locals, Inv, TypeOK
  <2>2. r \notin sent
    BY <2>1 DEF Inv, RequestOK, SentOK, ApprovalOK, Called
  <2> QED
    BY <2>1, <2>2, OtherOnce
<1>5. ASSUME NEW i \in Instance, Crash(i) PROVE OnceInv'
  <2>1. /\ UNCHANGED <<store, event, sent, receipt, call>>
        /\ \A q \in Request : \/ pc'[q] = "failed" /\ InFlight(q)
                              \/ pc'[q] = pc[q] /\ read'[q] = read[q]
    BY <1>5 DEF Crash, locals, Inv, TypeOK
  <2> QED
    BY <2>1, OtherOnce DEF InFlight, Steps
<1>6. ASSUME NEW r \in Request, Mine(r) PROVE OnceInv'
  BY <1>6, OtherOnce DEF Mine, locals
<1>7. CASE UNCHANGED vars
  BY <1>7, OtherOnce DEF vars, external, locals
<1> QED
  BY <1>3, <1>4, <1>5, <1>6, <1>7 DEF Next, Quiescent

\* OnceInv holds throughout if approvals are apart throughout.
LEMMA OnceInvariance == Spec /\ []ApprovalsApart => []OnceInv
<1>1. Init => OnceInv
  BY DEF Init, OnceInv, ApproverOK, ToSend, Settles, OnceOK, SentOn
<1>2. Inv /\ FeeInv /\ OnceInv /\ ApprovalsApart /\ [Next]_vars => OnceInv'
  BY NextOnce
<1> QED
  BY <1>1, <1>2, Invariance, FeeInvariance, PTL DEF Spec

\* Where requests do not overlap, approvals do not.
THEOREM ApartAlone ==
  ASSUME ~Overlap
  PROVE  Spec => []ApprovalsApart
<1>1. AloneInv => ApprovalsApart
  BY DEF AloneInv, Apart, ApprovalsApart
<1> QED
  BY <1>1, AloneInvariance, PTL

\* It takes two approvals at work on a case at once to send its message twice:
\* without that it is sent once, whatever rejections overlap with the approval and
\* with each other, and whatever fails or stops.
THEOREM ApprovalsApartSendOnce == Spec /\ []ApprovalsApart => []AtMostOneSend
<1>1. Inv /\ OnceInv => AtMostOneSend
  <2> SUFFICES ASSUME Inv, OnceInv, NEW r \in sent, NEW q \in sent, call[r].case = call[q].case
               PROVE  r = q
    BY DEF AtMostOneSend
  <2>1. call[r].case \in Case
    BY DEF Inv, TypeOK, RequestOK, SentOK, ApprovalOK, CallOK, Called, Arguments
  <2> QED
    BY <2>1 DEF OnceInv, OnceOK, SentOn
<1> QED
  BY <1>1, Invariance, OnceInvariance, PTL

\* A rejection that overlaps with an approval does not make a stored receipt false: it
\* verifies and agrees with the chain and with its card, and of what is replaced in it
\* and beside it the verifier notices exactly what a link takes in.
THEOREM ApprovalsApartVerify ==
  Spec /\ []ApprovalsApart => []( /\ SuccessVerifies /\ AnchorMatchesReceipt
                                  /\ NoticedIffLinked /\ CardTellsReport )
<1>1. OnceInv => SuccessVerifies
  BY DEF OnceInv, OnceOK, SuccessVerifies
<1>2. FeeInv /\ AnchorInv /\ OnceInv => AnchorMatchesReceipt
  <2> SUFFICES ASSUME FeeInv, AnchorInv, OnceInv, NEW c \in Case,
                      store[c] # Null, store[c].receipt # Null, chain[c] # Null
               PROVE  chain[c] = store[c].receipt.commitments.receipt
    BY DEF AnchorMatchesReceipt
  <2>1. PICK r \in Request : tx[r] = "mined" /\ call[r].case = c
    BY DEF AnchorInv, ChainFilled
  <2>2. r \in SentOn(c) /\ chain[c] = receipt[r].commitments.receipt
    BY <2>1 DEF AnchorInv, AnchorOK, FeeInv, OutcomeOK, SentOn
  <2>3. PICK q \in SentOn(c) : store[c].receipt.commitments = receipt[q].commitments
    BY DEF OnceInv, OnceOK
  <2>4. q = r
    BY <2>2, <2>3 DEF OnceInv, OnceOK
  <2> QED
    BY <2>2, <2>3, <2>4
<1>3. Inv /\ SuccessVerifies => NoticedIffLinked
  BY NoticedIfVerified
<1>4. Inv /\ SandboxInv /\ SuccessVerifies => CardTellsReport
  BY SuccessTold DEF CardTellsReport, Succeeded
<1> QED
  BY <1>1, <1>2, <1>3, <1>4, Invariance, FeeInvariance, AnchorInvariance, SandboxInvariance,
     OnceInvariance, PTL

\* So rejections may overlap with approvals that do not overlap each other.
THEOREM RejectionsOverlap == Spec => RejectionsMayOverlap
BY ApprovalsApartSendOnce, ApprovalsApartVerify, PTL DEF RejectionsMayOverlap
==============================================================================
