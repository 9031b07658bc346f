---------------------------- MODULE ComputeProofs ----------------------------
(***************************************************************************)
(* What Orchestrator may take of analyze, for any number of calls and      *)
(* providers: its results are those of Orchestrator's Analyze, and only    *)
(* what an enclave answered is called attested.                            *)
(***************************************************************************)
EXTENDS ComputeClient, TLAPS

\* Only a configured client awaits anything, a result is the end, and a
\* transfer is from a ledger that was there.
Progress ==
  \A r \in Call :
    /\ pc[r] \in Awaiting => Configured /\ result[r] = Null
    /\ pc[r] = "idle" => result[r] = Null
    /\ pc[r] \in {"ledger", "transfer", "chat", "process"} => provider[r] \in Provider
    /\ pc[r] = "transfer" => balance \in Nat

ComputeInv == TypeOK /\ Progress /\ AttestedIsGenuine /\ ImplementsAnalyze

-----------------------------------------------------------------------------
\* The result of a call without attestation is one that Analyze has.
LEMMA UnattestedIsResult ==
  ASSUME ComputeAssumption
  PROVE  Unattested \in Result /\ ~Unattested.teeAttested
BY DEF Unattested, Result

\* Attested is a Boolean of whatever processResponse returned.
LEMMA VerdictIsBoolean ==
  ASSUME NEW isValid
  PROVE  Attested(isValid) \in BOOLEAN /\ (~Attested(isValid)) \in BOOLEAN
<1>1. CASE isValid = TRUE
  BY <1>1, Zenon DEF Attested
<1>2. CASE isValid # TRUE
  BY <1>2, Zenon DEF Attested
<1> QED BY <1>1, <1>2

\* Falling back keeps the invariant, if the call had no result.
LEMMA FallBackKeepsInv ==
  ASSUME ComputeAssumption, ComputeInv, NEW r \in Call, FallBack(r), result[r] = Null,
         genuine \subseteq genuine', UNCHANGED provider,
         balance \in Nat => balance' \in Nat, TypeOK'
  PROVE  ComputeInv'
<1> USE DEF ComputeInv, FallBack
<1>1. /\ pc' = [pc EXCEPT ![r] = "done"] /\ result' = [result EXCEPT ![r] = Unattested]
      /\ pc \in [Call -> Awaiting \cup {"idle", "done"}]
      /\ result \in [Call -> Result \cup {Null}]
  BY DEF TypeOK
<1>2. \A q \in Call : q # r => pc'[q] = pc[q] /\ result'[q] = result[q]
  BY <1>1
<1>3. pc'[r] = "done" /\ result'[r] = Unattested
  BY <1>1
<1>4. Progress'
  BY <1>2, <1>3 DEF Progress, Awaiting
<1>5. AttestedIsGenuine'
  BY <1>2, <1>3, UnattestedIsResult DEF AttestedIsGenuine
<1>6. ImplementsAnalyze'
  <2> SUFFICES ASSUME NEW q \in Call, result'[q] # Null
               PROVE  \E a \in IF Configured THEN {"attested", "unverified", "fallback"}
                               ELSE {"fallback"} : result'[q] = ResultOf(a, provider'[q])
    BY DEF ImplementsAnalyze
  <2>1. CASE q = r
    <3>1. result'[q] = ResultOf("fallback", provider'[q])
      BY <1>3, <2>1 DEF ResultOf
    <3> QED BY <3>1
  <2>2. CASE q # r
    BY <1>2, <2>2 DEF ImplementsAnalyze, ResultOf
  <2> QED BY <2>1, <2>2
<1> QED BY <1>4, <1>5, <1>6

\* Going on to a step that is still awaited keeps the invariant.
LEMMA GotoKeepsInv ==
  ASSUME ComputeAssumption, ComputeInv, NEW r \in Call, NEW step \in Awaiting, Goto(r, step),
         pc[r] \in Awaiting \cup {"idle"}, Configured,
         genuine \subseteq genuine',
         \A q \in Call : q # r => provider'[q] = provider[q],
         step \in {"ledger", "transfer", "chat", "process"} => provider'[r] \in Provider,
         balance \in Nat => balance' \in Nat, step = "transfer" => balance' \in Nat,
         TypeOK'
  PROVE  ComputeInv'
<1> USE DEF ComputeInv, Goto
<1>1. result[r] = Null /\ result' = result
  BY DEF Progress
<1>2. \A q \in Call : q # r => pc'[q] = pc[q]
  BY DEF TypeOK
<1>3. pc'[r] = step
  BY DEF TypeOK
<1>4. Progress'
  BY <1>1, <1>2, <1>3 DEF Progress, Awaiting
<1>5. AttestedIsGenuine'
  BY <1>1 DEF AttestedIsGenuine
<1>6. ImplementsAnalyze'
  BY <1>1 DEF ImplementsAnalyze, ResultOf
<1> QED BY <1>4, <1>5, <1>6

-----------------------------------------------------------------------------
\* Every step keeps the types.
LEMMA TypeKept ==
  ASSUME ComputeAssumption, TypeOK, Progress, [Next]_vars
  PROVE  TypeOK'
<1> USE DEF ComputeAssumption, TypeOK, Awaiting
<1>1. CASE UNCHANGED vars
  BY <1>1 DEF vars, world
<1>2. CASE Relist
  BY <1>2 DEF Relist
<1>3. ASSUME NEW r \in Call, Analyze(r) \/ Step(r) PROVE TypeOK'
  <2> USE DEF Goto, FallBack, Answered, world
  <2>0. Unattested \in Result
    BY UnattestedIsResult
  <2>1. CASE Analyze(r)
    BY <2>0, <2>1 DEF Analyze
  <2>2. CASE Throws(r)
    BY <2>0, <2>2 DEF Throws
  <2>3. CASE SelectProvider(r)
    BY <2>3 DEF SelectProvider, Verifiable
  <2>4. CASE GetLedger(r)
    BY <2>4 DEF GetLedger
  <2>5. CASE TransferFund(r)
    <3>1. provider[r] \in Provider /\ balance \in Nat
      BY <2>5 DEF TransferFund, Progress
    <3>2. balance' = balance - TopUp /\ balance >= TopUp
      BY <2>5 DEF TransferFund
    <3>3. balance' \in Nat
      BY <3>1, <3>2
    <3>4. account' = [account EXCEPT ![provider[r]] = account[provider[r]] + TopUp]
      BY <2>5 DEF TransferFund
    <3>5. account' \in [Provider -> Nat]
      BY <3>1, <3>4
    <3>6. Answered(r, "chat") /\ UNCHANGED <<offers, genuine, provider, chatId>>
      BY <2>5 DEF TransferFund
    <3>7. /\ pc' \in [Call -> Awaiting \cup {"idle", "done"}]
          /\ result' \in [Call -> Result \cup {Null}]
      BY <2>0, <3>6
    <3> QED BY <3>3, <3>5, <3>6, <3>7
  <2>6. CASE Chat(r)
    <3>1. provider[r] \in Provider
      BY <2>6 DEF Chat, Progress
    <3>2. account' \in [Provider -> Nat] /\ genuine' \in SUBSET Call
      BY <2>6, <3>1 DEF Chat
    <3>3. chatId' \in [Call -> BOOLEAN]
      BY <2>6 DEF Chat
    <3>4. Answered(r, "process") /\ UNCHANGED <<offers, balance, provider>>
      BY <2>6 DEF Chat
    <3>5. /\ pc' \in [Call -> Awaiting \cup {"idle", "done"}]
          /\ result' \in [Call -> Result \cup {Null}]
      BY <2>0, <3>4
    <3> QED BY <3>2, <3>3, <3>4, <3>5
  <2>7. CASE ProcessResponse(r)
    <3>1. provider[r] \in Provider
      BY <2>7 DEF ProcessResponse, Progress
    <3>2. PICK isValid : result' = [result EXCEPT ![r] =
            [message |-> "chat", teeAttested |-> Attested(isValid),
             attestation |-> [providerAddress |-> provider[r], isValid |-> Attested(isValid)],
             providerAddress |-> provider[r], degraded |-> ~Attested(isValid)]]
      BY <2>7 DEF ProcessResponse
    <3>3. Attested(isValid) \in BOOLEAN /\ (~Attested(isValid)) \in BOOLEAN
      BY VerdictIsBoolean
    <3>4. result' \in [Call -> Result \cup {Null}]
      BY <3>1, <3>2, <3>3 DEF Result, Attestation
    <3>5. pc' \in [Call -> Awaiting \cup {"idle", "done"}]
          /\ UNCHANGED <<world, provider, chatId>>
      BY <2>7 DEF ProcessResponse
    <3> QED BY <3>4, <3>5
  <2> QED BY <1>3, <2>1, <2>2, <2>3, <2>4, <2>5, <2>6, <2>7 DEF Step
<1> QED BY <1>1, <1>2, <1>3 DEF Next

\* The answer that is called attested came from an enclave.
LEMMA ProcessResponseKeepsInv ==
  ASSUME ComputeAssumption, ComputeInv, NEW r \in Call, ProcessResponse(r), TypeOK'
  PROVE  ComputeInv'
<1> USE DEF ComputeInv
<1>1. PICK isValid \in Verdict(r) :
        result' = [result EXCEPT ![r] =
          [message |-> "chat", teeAttested |-> Attested(isValid),
           attestation |-> [providerAddress |-> provider[r], isValid |-> Attested(isValid)],
           providerAddress |-> provider[r], degraded |-> ~Attested(isValid)]]
  BY DEF ProcessResponse
<1>2. /\ pc' = [pc EXCEPT ![r] = "done"] /\ pc[r] = "process"
      /\ UNCHANGED <<balance, genuine, provider>>
  BY DEF ProcessResponse, world
<1>3. \A q \in Call : q # r => pc'[q] = pc[q] /\ result'[q] = result[q]
  BY <1>1, <1>2 DEF TypeOK
<1>4. pc'[r] = "done"
  BY <1>2 DEF TypeOK
<1>5. Attested(isValid) => r \in genuine
  BY <1>1 DEF Attested, Verdict, ComputeAssumption
<1>6. result'[r] = [message |-> "chat", teeAttested |-> Attested(isValid),
           attestation |-> [providerAddress |-> provider[r], isValid |-> Attested(isValid)],
           providerAddress |-> provider[r], degraded |-> ~Attested(isValid)]
  BY <1>1 DEF TypeOK
<1>7. Progress'
  BY <1>2, <1>3, <1>4 DEF Progress, Awaiting
<1>8. AttestedIsGenuine'
  BY <1>2, <1>3, <1>5, <1>6 DEF AttestedIsGenuine
<1>9. ImplementsAnalyze'
  <2> SUFFICES ASSUME NEW q \in Call, result'[q] # Null
               PROVE  \E a \in IF Configured THEN {"attested", "unverified", "fallback"}
                               ELSE {"fallback"} : result'[q] = ResultOf(a, provider'[q])
    BY DEF ImplementsAnalyze
  <2>1. CASE q = r
    <3>1. Configured
      BY <1>2 DEF Progress, Awaiting
    <3>2. CASE Attested(isValid)
      <4>1. result'[q] = ResultOf("attested", provider'[q])
        BY <1>2, <1>6, <2>1, <3>2 DEF ResultOf
      <4> QED BY <3>1, <4>1, Zenon
    <3>3. CASE ~Attested(isValid)
      <4>0. Attested(isValid) = FALSE /\ (~Attested(isValid)) = TRUE
        BY <3>3, VerdictIsBoolean
      <4>1. result'[q] = ResultOf("unverified", provider'[q])
        BY <1>2, <1>6, <2>1, <4>0 DEF ResultOf
      <4> QED BY <3>1, <4>1, Zenon
    <3> QED BY <3>2, <3>3
  <2>2. CASE q # r
    BY <1>2, <1>3, <2>2 DEF ImplementsAnalyze, ResultOf
  <2> QED BY <2>1, <2>2
<1> QED BY <1>7, <1>8, <1>9

-----------------------------------------------------------------------------
\* Every step keeps the invariant.
LEMMA StepKeepsInv ==
  ASSUME ComputeAssumption, ComputeInv, [Next]_vars
  PROVE  ComputeInv'
<1>0. TypeOK'
  BY TypeKept DEF ComputeInv
<1>1. CASE UNCHANGED vars
  BY <1>1 DEF vars, world, ComputeInv, TypeOK, Progress, AttestedIsGenuine, ImplementsAnalyze
<1>2. CASE Relist
  BY <1>0, <1>2 DEF Relist, ComputeInv, Progress, AttestedIsGenuine, ImplementsAnalyze
<1>3. ASSUME NEW r \in Call, Analyze(r) \/ Step(r) PROVE ComputeInv'
  <2>0. (pc[r] \in Awaiting \cup {"idle"} => result[r] = Null)
        /\ (pc[r] \in Awaiting => Configured)
    BY DEF ComputeInv, Progress
  <2>1. CASE Analyze(r)
    BY <1>0, <2>0, <2>1, FallBackKeepsInv, GotoKeepsInv DEF Analyze, Awaiting, world
  <2>2. CASE Throws(r)
    BY <1>0, <2>0, <2>2, FallBackKeepsInv DEF Throws, world
  <2>3. CASE SelectProvider(r)
    <3>1. \A q \in Call : q # r => provider'[q] = provider[q]
      BY <2>3 DEF SelectProvider, ComputeInv, TypeOK
    <3>2. provider'[r] \in Provider
      BY <2>3 DEF SelectProvider, Verifiable, ComputeInv, TypeOK
    <3> QED BY <1>0, <2>0, <2>3, <3>1, <3>2, GotoKeepsInv DEF SelectProvider, Awaiting, world
  <2>4. CASE GetLedger(r)
    <3>1. provider[r] \in Provider /\ balance \in Nat
      BY <2>4 DEF GetLedger, ComputeInv, Progress, TypeOK
    <3> QED BY <1>0, <2>0, <2>4, <3>1, GotoKeepsInv DEF GetLedger, Awaiting, world
  <2>5. CASE TransferFund(r)
    <3>1. provider[r] \in Provider /\ balance' = balance - TopUp /\ balance >= TopUp
      BY <2>5 DEF TransferFund, ComputeInv, Progress
    <3>2. balance \in Nat => balance' \in Nat
      BY <3>1 DEF ComputeAssumption
    <3> QED BY <1>0, <2>0, <2>5, <3>1, <3>2, GotoKeepsInv, FallBackKeepsInv
            DEF TransferFund, Answered, Awaiting
  <2>6. CASE Chat(r)
    <3>1. provider[r] \in Provider /\ genuine \subseteq genuine'
      BY <2>6 DEF Chat, ComputeInv, Progress
    <3> QED BY <1>0, <2>0, <2>6, <3>1, GotoKeepsInv, FallBackKeepsInv
            DEF Chat, Answered, Awaiting
  <2>7. CASE ProcessResponse(r)
    BY <1>0, <2>7, ProcessResponseKeepsInv
  <2> QED BY <1>3, <2>1, <2>2, <2>3, <2>4, <2>5, <2>6, <2>7 DEF Step
<1> QED BY <1>1, <1>2, <1>3 DEF Next

\* The invariant holds in every behaviour.
LEMMA ComputeInvariance == Spec => []ComputeInv
<1>1. Init => ComputeInv
  BY ComputeAssumption DEF Init, ComputeInv, ComputeAssumption, TypeOK, Progress, Awaiting,
       AttestedIsGenuine, ImplementsAnalyze
<1>2. ComputeInv /\ [Next]_vars => ComputeInv'
  BY StepKeepsInv, ComputeAssumption
<1> QED BY <1>1, <1>2, PTL DEF Spec

\* However calls interleave and whatever fails, what is called TEE-attested
\* was answered from an enclave.
THEOREM AttestationIsHonest == Spec => []AttestedIsGenuine
<1>1. ComputeInv => AttestedIsGenuine
  BY DEF ComputeInv
<1> QED BY <1>1, ComputeInvariance, PTL

\* analyze returns nothing but the results that Orchestrator's Analyze has.
THEOREM AnalysesAreImplemented == Spec => []ImplementsAnalyze
<1>1. ComputeInv => ImplementsAnalyze
  BY DEF ComputeInv
<1> QED BY <1>1, ComputeInvariance, PTL

\* Every variable, and every result, keeps its type.
THEOREM ComputeTyped == Spec => []TypeOK
<1>1. ComputeInv => TypeOK
  BY DEF ComputeInv
<1> QED BY <1>1, ComputeInvariance, PTL

-----------------------------------------------------------------------------
(* Every call comes to an end, with a result.                              *)

\* What a step of call r does to its place and its result.
Moves(r) ==
  /\ pc[r] # "done" /\ pc' = [pc EXCEPT ![r] = pc'[r]]
  /\ result' = [result EXCEPT ![r] = result'[r]]
  /\ \/ pc'[r] = "done" /\ result'[r] \in Result
     \/ /\ result'[r] = result[r]
        /\ \/ pc[r] = "idle" /\ pc'[r] = "list"
           \/ pc[r] = "list" /\ pc'[r] = "ledger"
           \/ pc[r] = "ledger" /\ pc'[r] = "transfer"
           \/ pc[r] = "transfer" /\ pc'[r] = "chat"
           \/ pc[r] = "chat" /\ pc'[r] = "process"

LEMMA StepMoves ==
  ASSUME ComputeAssumption, ComputeInv, NEW r \in Call, Analyze(r) \/ Step(r)
  PROVE  Moves(r)
<1>0. /\ pc \in [Call -> Awaiting \cup {"idle", "done"}] /\ result \in [Call -> Result \cup {Null}]
      /\ Unattested \in Result
  BY UnattestedIsResult DEF ComputeInv, TypeOK
<1>1. CASE Analyze(r)
  BY <1>0, <1>1 DEF Analyze, Goto, FallBack, Moves
<1>2. CASE Throws(r)
  BY <1>0, <1>2 DEF Throws, FallBack, Awaiting, Moves
<1>3. CASE SelectProvider(r) \/ GetLedger(r)
  BY <1>0, <1>3 DEF SelectProvider, GetLedger, Goto, Moves
<1>4. CASE TransferFund(r) \/ Chat(r)
  BY <1>0, <1>4 DEF TransferFund, Chat, Answered, Goto, FallBack, Moves
<1>5. CASE ProcessResponse(r)
  <2>1. ComputeInv'
    BY <1>5, StepKeepsInv DEF Next, Step
  <2>2. pc[r] = "process" /\ pc' = [pc EXCEPT ![r] = "done"]
    BY <1>5 DEF ProcessResponse
  <2>3. PICK isValid \in Verdict(r) :
          result' = [result EXCEPT ![r] =
            [message |-> "chat", teeAttested |-> Attested(isValid),
             attestation |-> [providerAddress |-> provider[r], isValid |-> Attested(isValid)],
             providerAddress |-> provider[r], degraded |-> ~Attested(isValid)]]
    BY <1>5 DEF ProcessResponse
  <2>4. provider[r] \in Provider
    BY <2>2 DEF ComputeInv, Progress
  <2>5. Attested(isValid) \in BOOLEAN /\ (~Attested(isValid)) \in BOOLEAN
    BY VerdictIsBoolean
  <2>6. result' = [result EXCEPT ![r] = result'[r]] /\ result'[r] \in Result
    BY <1>0, <2>3, <2>4, <2>5 DEF Result, Attestation
  <2> QED BY <1>0, <2>2, <2>6 DEF Moves
<1> QED BY <1>1, <1>2, <1>3, <1>4, <1>5 DEF Step

\* A call that is at its end has its result.
Ended == \A r \in Call : pc[r] = "done" => result[r] \in Result

\* Whatever a step does, no call is taken back, the step's own goes on, and none
\* is at its end without a result.
LEMMA StepAdvances ==
  ASSUME ComputeAssumption, ComputeInv, Ended, [Next]_vars
  PROVE  /\ Ended'
         /\ \A r \in Call :
              /\ Passed(r) <= Passed(r)'
              /\ Analyze(r) \/ Step(r) => Passed(r) < Passed(r)'
<1>0. /\ pc \in [Call -> Awaiting \cup {"idle", "done"}]
      /\ result \in [Call -> Result \cup {Null}]
  BY DEF ComputeInv, TypeOK
<1>1. ASSUME NEW q \in Call, Moves(q)
      PROVE  /\ Ended'
             /\ Passed(q) < Passed(q)'
             /\ \A r \in Call : Passed(r) <= Passed(r)'
  <2>1. \A r \in Call : r # q => pc'[r] = pc[r] /\ result'[r] = result[r]
    BY <1>0, <1>1 DEF Moves
  <2>2. Ended'
    BY <1>1, <2>1 DEF Moves, Ended
  <2>3. Passed(q) < Passed(q)'
    BY <1>0, <1>1 DEF Moves, Passed, Awaiting
  <2>4. \A r \in Call : r # q => Passed(r) = Passed(r)' /\ Passed(r) \in Int
    BY <2>1 DEF Passed
  <2>5. Passed(q) \in Int /\ Passed(q)' \in Int
    BY DEF Passed
  <2> QED BY <2>2, <2>3, <2>4, <2>5
<1>2. ASSUME NEW q \in Call, Analyze(q) \/ Step(q) PROVE Moves(q)
  BY <1>2, StepMoves
<1>3. ASSUME UNCHANGED <<pc, result>> PROVE Ended' /\ \A r \in Call : Passed(r) <= Passed(r)'
  <2>1. \A r \in Call : Passed(r)' = Passed(r) /\ Passed(r) \in Int
    BY <1>3 DEF Passed
  <2> QED BY <1>3, <2>1 DEF Ended
<1>4. Ended' /\ \A r \in Call : Passed(r) <= Passed(r)'
  <2>1. CASE UNCHANGED vars
    BY <1>3, <2>1 DEF vars
  <2>2. CASE Relist
    BY <1>3, <2>2 DEF Relist
  <2>3. CASE \E q \in Call : Analyze(q) \/ Step(q)
    BY <1>1, <1>2, <2>3
  <2> QED BY <2>1, <2>2, <2>3 DEF Next
<1> QED BY <1>1, <1>2, <1>4

\* However calls interleave, whatever fails and whatever becomes of the list, each
\* step of a call takes it on (six at most), no other's takes it back, and its end is
\* a result.
THEOREM AnalysesComeToAnEnd == Spec => AnalysesAdvance
<1>1. Init => Ended
  BY DEF Init, Ended
<1>2. ComputeInv /\ Ended /\ [Next]_vars => Ended'
  BY StepAdvances, ComputeAssumption
<1>3. ComputeInv /\ Ended /\ [Next]_vars =>
        [\A r \in Call :
           /\ Passed(r) <= Passed(r)'
           /\ Analyze(r) \/ Step(r) => Passed(r) < Passed(r)'
           /\ pc'[r] = "done" => result'[r] # Null]_vars
  BY StepAdvances, ComputeAssumption, ResultAssumption DEF Ended
<1> QED BY <1>1, <1>2, <1>3, ComputeInvariance, PTL DEF Spec, AnalysesAdvance
==============================================================================
