# Clawback in TLA+

Clawback takes a subscription case from a user, drafts a message to the
merchant, shows it, sends it once the user approves, and closes the case with a
receipt whose commitments are chained and, where a chain is configured,
anchored. These modules model that life of a case: the state machine, the
requests that drive it, the stores beneath it and the money and the receipt at
its end. Paths below are relative to `src/`.

## The system

| Part | State | Operations | Interacts with |
| --- | --- | --- | --- |
| State machine, `packages/shared/src/stateMachine.ts` | none | `applyTransition`, `isTerminal`, `legalEvents` | called by every `CaseStore.transition` |
| Orchestrator, `packages/agent/src/orchestrator.ts` | none but the locals of each call | `submitCase`, `rejectProposal`, `approveAndExecute`, `getCase`, `verifyCaseReceipt` | awaits the store, compute, the provider, storage, the chain and the ledger |
| Case store, `packages/agent/src/store.ts` | one `CaseRecord` per case: in Redis, in files, or in memory | `create`, `get`, `getForOwner`, `transition`, `listForOwner` | called by the orchestrator |
| Compute, `packages/compute` | none of its own; the wallet's ledger and its accounts with providers | `analyze` | the 0G Compute broker; falls back to a template |
| Provider, `packages/providers` | none | `sendAction` | the simulator answers; the live provider throws |
| Receipts, `packages/receipts` | none | `buildReceipt`, `verifyReceipt` | pure |
| Payments, `packages/payments` | `LocalSettlementLedger`: a Map per process | `computeFee`, `assessFee`, `markCollected`, `get` | called once per success |
| Chain, `packages/chain` | the contract's mapping of cases to anchors | `anchorReceipt`, `anchor`, `verify` | a transaction outlives the call that sent it |
| Storage, `packages/storage` | none | `uploadJson`, `downloadJson` | 0G Storage |
| Privacy, `packages/privacy` | none | encryption at rest, redaction | pure |
| Web server, `apps/web` | a cookie per browser; one orchestrator, store and key per instance, chosen from the environment it started with | routes for submit, approve, reject, get, verify | any number of requests at a time, on any instance |
| Browser, `apps/web/src/app/cases` | the case as of the last answer, a busy flag per page, the verifier's report | the form's submit; `approve`, `reject`; the report under a receipt | fetches that outlive the page |

### What is hard in it

Nothing in the program locks anything. A request is an async function over a
shared store, and `CaseStore.transition` is a `get`, a pure check and a `save`:
between the two, any other request on the case may do the same. The process may
stop at every `await`, the store may fail before or after it has written, and
the chain may mine a transaction whose wait has failed. Users retry: the page
says "Try again". A browser may have two requests under way before it has a
cookie, and the instances of a host may keep their cases in different places
and under different keys. `PROJECT.json` lists each of these hazards at its line.

## The modules

- `CaseMachine`: the table of `stateMachine.ts` as a set of entries, and its
  functions.
- `CaseLifecycle`: what is promised of a case. It is created once, moves along
  the table one transition at a time, and its message leaves at most once,
  while it is `EXECUTING`.
- `CaseRequests`: what is promised to a caller. A call has its whole effect when
  it is answered, or is refused and has none; only a call that is cut short leaves
  a case on the way, and no later call takes it on from there.
- `Artifacts`: the types of `types.ts` and `caseRecord.ts`, and commitments.
- `Receipts`: `buildReceipt` and the checks of `verifyReceipt`.
- `Settlement`: the simulator, `verifyClaimedSavings`, `computeFee`, `assessFee`.
- `Orchestrator`: the component that composes all of these. See below.
- `ReceiptCard`: what the card of a receipt and the verifier's report claim.
  `ReceiptIntegrity`: what that, and the chain of commitments, is worth for the
  receipts that `Orchestrator` stores.
- `OrchestratorInvariants`: the parts of its inductive invariants.
- `FileCaseStore`: the directory of the file store, below the atomic register that
  `Orchestrator` takes a store to be, and the listing of an owner's cases.
- `ComputeClient`: `analyze` and the broker's calls, below the one step `Analyze`
  that `Orchestrator` takes it to be.
- `CasePage`: one user's browser, in any number of tabs, over `Orchestrator`.
- `Deployment`: what spans requests: browsers with their cookies, the routes with
  their status codes, instances with the configuration they started with. It too is
  shown to implement `CaseRequests`.
- `MCOrchestrator`, `MCFileCaseStore`, `MCCasePage`, `MCDeployment`: the values
  that constants have in the runs.
- `LifecycleProofs`, `OrchestratorProofs`, `SerialProofs`, `RequestProofs`,
  `CasePageProofs`, `ComputeProofs`, `FileProofs`, `DeploymentProofs`: the theorems.

The composition is `CasePage` over `Orchestrator` over `Receipts`, `Settlement` and
`Artifacts` over `CaseMachine`. Where requests on a case do not overlap,
`Orchestrator` implements both `CaseLifecycle` and `CaseRequests`.
`Deployment` implements `CaseRequests` where every environment is usable, with one key
and a store that outlives its instances. As long as the stores so far do, it keeps to
it step by step, but for the calls that the serving instance's own configuration
fails (`PromiseWhileLasting`): what is promised of a method's answer is promised
of a route's status code. A `/tmp` of its own, an instance takes with it: a case that a
caller was told of is then gone, and there is no promise to keep.
`ComputeClient` and `FileCaseStore` justify two of its steps from below.
`Deployment` is beside it: there a route's handler is one step, as what happens
between its awaits is `Orchestrator`'s subject, and what it is about is what
`Orchestrator` takes for given: who asks, which instance serves, and what store and
key that instance has.

### How Orchestrator corresponds to the code

A call of a method is a member of `Request`. `pc[r]` names the awaited call that
request `r` is about to complete; an action is the code from the completion of
one awaited call to that of the next.

| Action | Code |
| --- | --- |
| `ArriveSubmit`, `ArriveApprove`, `ArriveReject` | the API routes call the orchestrator |
| `Create` | `store.create` in `submitCase` |
| `TransitionGet` | `get` and `applyTransition` in `CaseStore.transition` |
| `TransitionSave` | the patch of the caller, `save`, and the caller's code up to its next await |
| `Analyze` | `compute.analyze` |
| `Final` | the `get` that reads the case back for the answer |
| `Authorize` | `getForOwner` and, for an approval, the comparison of proposals |
| `SendReturns`, `SendThrows` | `provider.sendAction` and the `OutcomeEvidence`, or the catch |
| `Upload` | `storageClient.uploadJson`, or its swallowed failure |
| `AnchorSubmit`, `AnchorSkip` | `anchorReceipt` up to the transaction being out, or no client or a failure |
| `Mine` | `CaseAnchor.anchor` on the chain, at any time after |
| `AnchorDone`, `AnchorLost` | `tx.wait()` returns or throws |
| `AssessFee` | `computeFee` and `assessFee` |
| `Throw` | a store call throws, its write made or not; the route answers an error |
| `Crash` | an instance stops: its requests end, its ledger is gone |

`store` is the one record per case, `ledger` the Map of each instance, `chain`
the contract's mapping and `tx` its transactions. `current`, `read`, `analysis`,
`outcome` and `receipt` are the locals of the same names in the methods (`read`
is `current` of `transition`). `sent` is history: the requests whose
`sendAction` delivered the message.

The constant `Overlap` says whether a request on a case may be served while
another is; nothing in the code prevents it. `Faults` switches `Throw` and
`Crash`.

Under the mapping to `CaseLifecycle` a case is in the state on record. Under the
one to `CaseRequests` it is in the state it was in before the request at work on it
moved it (`Unstarted`), so that a request takes effect in the step that ends it;
`Asked` and `Answers` are the call and its end. `ImplementsRequests` is more than the
refinement: a step of a request itself maps to an `Uncut` step, so that only `Throw`
and `Crash` may cut a call short. A call that is refused has no effect even where
faults are possible.

### How CasePage corresponds to the code

`page[t]` is a tab: the form of `cases/new/page.tsx`, or the page of a case with
the `caseView` that `CaseView.tsx` holds, its `executing` flag (`submitting` on
the form), and the fetches not yet answered. `Panel` is what it renders.

| Action | Code |
| --- | --- |
| `Submit`, `Approve`, `Reject` | the handlers of the same names up to their `fetch`; a route starts the request in `Orchestrator` |
| `Answered` | the rest of the handler on a good answer: `router.push` to the page of the case, or `setCaseView` |
| `Failed` | the rest of it on an error answer |
| `Lose` | `fetch` rejects, at any time, while the request goes on |
| `Visit` | a reload, or the page opened in another tab: `getCase` on the server |
| `OpenPanel` | the panel of a receipt is opened: `loadVerification` up to its `fetch`, which the server answers |
| `ReportArrives`, `ReportLost` | the rest of `loadVerification` on an answer, or on a fetch that fails |
| `Server` | any step of `Orchestrator` but an arrival |

`approve` sets `executing`, and so hides both buttons of its own tab; `reject` sets
nothing. `answer` is the body of a request's answer; `reviewed` is history: the
proposal on the page when the user clicked.

### How ComputeClient corresponds to the code

`pc[r]` names the broker's call that call `r` of `analyze` awaits.

| Action | Code |
| --- | --- |
| `Analyze` | `analyze` up to its first await, or the fallback where no key is set |
| `SelectProvider` | `createBroker`, `listService`, the filter by verifiability and the choice in `selectProvider` |
| `GetLedger`, `TransferFund` | the two calls of `ensureFunded` |
| `Chat` | the metadata, the headers and the `fetch` of the provider's endpoint |
| `ProcessResponse` | `processResponse`, and the result that `analyze` builds of its verdict |
| `Throws` | the awaited call throws; `analyze` catches it and falls back |
| `Relist` | the providers change their `offers`: a service with a verifiability, one without, or none (external) |

### How FileCaseStore corresponds to the code

| Action | Code |
| --- | --- |
| `SaveOpen`, `SaveWrite` | `writeFile`: the file is opened, which empties it, and written |
| `GetOpen`, `GetRead` | `readFile`: its size is taken, and as much is read and parsed |
| `ListStart`, `ListOpen`, `ListRead`, `ListEnd` | `listForOwner`: `readdir`, then the same for each file, which throws at the first that is not a record |
| `Crash` | the process stops, and the files stay as they are |

### How Deployment corresponds to the code

A member of `Fetch` is a request of a browser, from `Send` to `Receive`. It also
names the identity and the case that its handler may make, both random ids.

| Action | Code |
| --- | --- |
| `Send`, `Receive` | the browser sends a request with its cookie; the answer arrives, with its `Set-Cookie` |
| `Lose`, `ClearCookies` | the connection is lost, before or after the request is served; the user clears cookies |
| `Submit` | `POST /api/cases`: `getOrCreateOwnerId`, the encryption of the input, the record |
| `Read`, `Stranger` | the page of a case, for a browser with a cookie and for one without |
| `Reject`, `Approve`, `Verify` | the other three routes, with the key that decrypts or does not |
| `Missing`, `Forbidden`, `Unconfigured` | the errors before that, by `toErrorResponse` |
| `Replace` | an instance is replaced by a cold one, which reads the environment again; its `/tmp` is gone |

`env` is the environment that instances now start with, `instance[i]` the one that
instance `i` started with, `records` what each of the places a store may be holds,
`jar` each browser's cookie. `envs`, `cleared` and `raced` are history.

Under the mapping to `CaseRequests` a case is in the state of its record, wherever
that is (`States`); a fetch of a submission, an approval or a rejection is a call
(`Asked`); 200 and 201 are its answer, any other status is its failure (`Answers`).
No call is cut short there in the sense of `CaseRequests`. What may go half way is
`FailsConfigured`: the instance that answers is not usable and a submission makes no
case, or it does not have the key of the very case it is to approve, and leaves it
`EXECUTING`.

### Abstractions

- Ids are UUIDs and timestamps clock readings in the code; both are the name of
  the request that made them, which is as unique.
- A commitment is a record wrapping what was hashed: SHA-256 over a canonical
  form is taken to be injective.
- A text is which analysis produced it, or the amount in cents that
  `extractCents` finds in it. The simulator hashes an account to a bucket below
  100; `Bucket` is that function.
- `record.environment` is that of the deployment and not kept per record;
  `settlement` on the record is never written by the code.
- A page's `getCase` at `Visit` is one step. The user opens only cases that a tab
  of theirs shows; an id is told to nobody else.
- A provider's answer is genuine if it came from its enclave, which it has only while
  it offers a verifiability; the broker's check says so of an answer with an id, or
  says that it could not check (`null`).
- The card and the report of a receipt are what they claim of it, not how they
  word it; a report is `Checks` of the record that its request read.
- A file is a sequence of units that each name the version they are of. It parses
  if it is all of one version. `writeFile` writes a record in one write.
- In `Deployment` a key decrypts what it encrypted and nothing else; forms are
  complete; an approval names the proposal on record, as the page's does.
- A storage root hash is opaque: nothing in the program reads it again.
- The store is a register per case: Redis' GET and SET. A SET that is still on
  its way when its instance stops counts as made or never made, and the
  client library's own retries are not modelled. For files, `FileCaseStore`
  says when this holds.
- `EXPIRE` and `OUTCOME_UNVERIFIABLE` are in the table and raised by no code, so
  no action raises them.
- `computeFee` multiplies and divides in floating point; below 2^53 that is exact
  up to the final rounding, which the model does in integers.

## The runs

| Run | Instance | What it shows |
| --- | --- | --- |
| `orchestrator_overlap` | 1 case, 3 requests, 2 owners, 2 instances, all four answers; overlap and faults | records stay whole and only approved messages leave, stored anchors are genuine, fees are backed, identity is fixed |
| `orchestrator_serial` | 1 case, 3 requests, 2 instances, nine inputs, all services configured; faults, no overlap | the system implements `CaseLifecycle` and `CaseRequests`; what a caller was told stays true; one send; the approval, the anchor, the fee and the receipt agree with the record; fees are bounded for all edge amounts; the card of a receipt tells what its report does; what is replaced in a success is noticed exactly if a link of its receipt takes it in |
| `orchestrator_progress` | 2 cases, 3 requests, overlap, no faults | every request is answered, every case comes to rest, and until it does a request goes on with it; if only rejections overlap, one send, and a stored receipt that stays true |
| `file_store` | 3 clients, 2 cases of 2 owners, versions of lengths 1 and 3; gets and listings beside a save, crashes | when a file is the register, and a listing complete |
| `compute` | 2 calls, 2 providers of which one is preferred, balances 0 to 2, a chat for 2, a top-up of 1 | an analysis always returns, is one of the three results `Orchestrator` takes it for, and is called attested only if it is |
| `case_page` | 2 tabs, 1 case, 3 requests; faults, no overlap | the page shows no end that is not the case's; what is sent is what was reviewed; a report is of the receipt above it; no page stays busy |
| `deployment` | 2 browsers, 3 fetches, 2 instances, five environments; one change of the environment, one browser that clears its cookies, one lost fetch | who sees and moves which case, where cases are found, and which errors are the configuration's; as long as stores last, a status code tells what was done, and only the serving instance's own wrong key leaves a case half way |
| `race_two_sends` | 1 tab, 3 requests; overlap, no faults | two sends, from the buttons of one page |
| `receipt_claims` | no faults, no overlap | a receipt that verifies after what it says of itself was replaced |
| `unrecorded_anchor` | no faults | an anchored receipt that says it is not |
| `compute_topup` | as `compute` | an account is topped up whatever it holds |
| `file_store_crash` | crashes | a case that is lost |

Three requests are a submit and two more on the case, which is what every race in
this code takes: two approvals, or an approval and a rejection. Two owners are one
who may and one who may not; two instances are one that crashes and one that goes
on. The inputs are at the edges of the simulator's buckets (59, 84, 94, 95) and of
the fee: nothing, one cent whose fee rounds to nothing, an amount that rounds, the
simulator's own amount, and one text that names an amount before another does. Two
tabs are one with a stale page and one that acts; the accounts of `case_page` are
one that gets an answer and one that gets none. In `compute` a top-up is less than
a chat costs, so that an account may hold nothing, too little or enough, and the
ledger may run dry between two calls. Three fetches are a submit and two more on
the case, or two submits that race for a cookie and one that uses it. The
environments of `deployment` are Redis under a good and under a malformed key, a
disk, the `/tmp` of a serverless host with half of Redis's variables, and one
without a key; with one change, instances of any two of them run side by side. A
malformed key is also a key that was changed: it does not decrypt either. A
directory that cannot be written is in the module and not among these: it only
makes submissions fail. Two versions of lengths 1 and 3 are a record that grows
and one that shrinks. Where symmetry is used, it is of requests, of clients, or of
browsers, fetches and instances; no run that checks liveness uses it.

The five violations are disagreements between what the repository says and what
its code does; `findings` in `PROJECT.json` quotes both sides. The documents
disclose some of what is behind them: LIMITATIONS.md section 8 says the file
store has "no locking, no transactions" and that the ledger is not durable. The
race, though, is in `CaseStore.transition` and so in every store whose calls take
time, Redis included. With the page it takes no second tab: `reject` leaves the
Approve button where it is, and a lost answer or a reload brings both back. The
same race lets a rejection overwrite a case whose message has left, which
`RejectedNeverSent` and `EndsShownAreTrue` exclude only without overlap.

What a receipt proves is less than the README of the repository says of it
(`README.md:148`: the verifier "never trusts the receipt object's own claims about
itself"). `ReceiptIntegrity` splits what is stored with a success in two. `Linked` is
what a link of the chain takes in: the account, the proposal's id and message, the
approval's time and commitment, the execution but whether it succeeded, the outcome's
type and amounts, the receipt's id, case and status, and the links; replaced, none of
these verifies. `Unlinked` is the rest: the receipt's own amounts, its attested flag,
its environment, its approval time, its transaction and its storage root, the details
and the wish of the input, the estimate of the proposal, who approved and for which
proposal, and the counterparty's confirmation; any of these may be replaced and the
receipt verifies as before. `NoticedIffLinked` says both halves, and
`OwnClaimsAreNotTrusted`, which `receipt_claims` refutes, is the sentence quoted. As
the page draws its card from the receipt's own fields, `CardTellsReport` is about
receipts as they were stored. There is one thing in which card and report part even
then, and `CardAgrees` leaves it out: in the sandbox, from which alone a receipt
comes, the card says "Not available in sandbox" of the amount
(`ReceiptCard.tsx:205`) that the report calls corroborated (`verifier.ts:137-144`).

`ErrorsAreConfiguration` has two exceptions that `httpErrors.ts:26-28`, which calls an
unhandled error "an infra/config problem", does not: a verification that fails, as
that of a case without a receipt does, is a 500, and so is the page of a case for a
browser without a cookie, as a server component cannot set one. Both contradict that
comment. So does, of `fee.ts:28-29` ("a case must reach VERIFIED_SUCCESS [...] before
any fee is owed"), the order of `orchestrator.ts:229-236`, where the fee is assessed
before the last transition, which may fail and leave it; `FeeMatchesOutcome` says that
it is the fee the outcome calls for even so.

Some properties hold where the program is used as they say, and their precondition is
the hazard itself: `UndisturbedGetIsLatest` and `UndisturbedListIsComplete` exclude a
save under way, `CasesAreFound` a mixture of stores, and those of the runs without
overlap the race of `store.ts:63`. They delimit what goes wrong and do not catch it;
the notes of `hazards` say so one by one.

### Fairness

`Fairness` is weak fairness of `Serve(r)`, request by request: the event loop
resumes a request once the call it awaits has completed, and the store, the
provider, compute and storage complete every call, with an answer or an error.
`ChainFairness` adds that a submitted transaction is mined. Without it
`CaseComesToRest` fails: `anchorReceipt` awaits the transaction with no timeout of
its own, and `approveAndExecute` awaits `anchorReceipt`, so the case stays
`OUTCOME_PENDING` for as long as the transaction is out. Nothing is assumed of
arrivals, of `AnchorLost`, or of faults.

`PageFairSpec` keeps both of these and adds that a fetch which the server has
answered completes, as does the fetch of a report. It assumes nothing of `Lose`,
`Visit` or the user. The `FairSpec` of `ComputeClient` is weak fairness of each
call's `Step`: every awaited call of the broker, the provider's `fetch` included,
ends with an answer or an error. The code sets no timeout on any of them, so this is
an assumption about the broker and the runtime.

## The proofs

Every theorem is for any number of cases, requests, owners and instances, any
inputs and any `Bucket`, with any faults, and for any number of tabs, analyses,
providers, clients, files, browsers and environments. They rest on the named
assumptions of `Artifacts`, `Settlement`, `Orchestrator`, `CasePage`,
`ComputeClient`, `FileCaseStore` and `Deployment`, which only give the constants
their types, say that `Null` is none of the values (`EventAssumption`,
`AskedAssumption` and `ResultAssumption` say it of events, calls and the results of
`analyze`), and that what must have a member
has one. Where requests must not overlap,
the theorem says so with `ASSUME ~Overlap` (for files, `Overlap # "saves"`);
what overlap breaks is in the runs that expect a violation. `RoutesImplementRequests`
assumes that every environment is usable and selects a durable store, and that all
have one key; `RoutesKeepPromise` assumes none of it.

### The orchestrator, whatever overlaps

`RecordsConsistent` is not inductive: a save stores a record computed from an
earlier get, and that get may be stale. `Inv` adds what makes stale saves
harmless to it, request by request:

- `ReadOK`: a record about to be saved over and the record in the store may
  differ in how far the case has come, but not in whose it is, its input or its
  proposal. So every save writes a consistent record, whatever it undoes.
- `SubmitOK` and `OneSubmit`: while `submitCase` runs, nobody else writes its
  case, because nobody knows its id. That is why the proposal is written once,
  and why what others have read of it holds.
- `ApprovalOK`: what `getForOwner` returned to an approval is still the owner,
  the input and the proposal on record when the message leaves.
- `StepOK` and `Prepared`: a request has the locals its next step needs; so an
  outcome recorded with `EXECUTION_FAILED` is a `no_response`, and a receipt is
  there at `OUTCOME_CONFIRMED`.

`OrchestratorProofs` has a lemma per action. A step of request `r` keeps
`RequestOK` of the others by one lemma, `OthersKeepInv`, from `SaveEvolves`: a
save only moves a case on, or back, without changing its identity. `Invariance`
gives `TypeCorrect`, `RecordsStayConsistent`, `OnlyApprovedLeave` and, as an
action property, `IdentityIsFixed`.

For fees, `FeeInv` adds `OutcomeOK` (an outcome comes from a message that was sent, and
a fee is due only on confirmed savings), and gives `FeesAreBacked` and
`FeesAreBounded`, the latter by the arithmetic of rounding for every amount. For
anchors, `StoredAnchorGenuine` needs to know where the receipt of a mined
transaction is: `AnchorInv` says that the request that sent it holds the receipt
unchanged until it is stored, that only its own transaction is ever on that receipt,
and that what is on the chain was put there by a request on that case
(`AnchorsAreGenuine`), so that a second transaction, which the contract refuses,
cannot be named by a receipt.

`NoneIsLeft` is about what overlapping saves may undo: whichever request saved a
case last goes on with it, so unless that one was cut short a case that is not at
rest always has a request that moves it on. `SaveControl` shows why: every save
leads to a state from which the next event of the same request is legal. It is the
safety half of `CaseComesToRest`.

`RequestsComeToAnEnd` is that of `EveryRequestAnswered`. `Passed` measures how far a
request has come, by its transition and by its step within it: no step of another
request, of the chain or of a crash lowers it, and each step of its own raises it. So
a request makes a bounded number of steps, whatever overlaps, whatever it finds in the
store and whatever fails; no retry, loop or undone save makes it start again. That
it makes the next one is `StepsAreEnabled` and fairness.

### The orchestrator, without overlap

`SerialProofs` rests on `AloneInv`. Its core is that what a request read, sent or
assessed is still what the record says when it saves (`AloneOK`), which is false
with overlap; and that a case tells of its message, its receipt and its fee what
happened (`CaseOK`). A crash or a fault between two steps leaves a case where no
request in flight is on it, so `CaseOK` alone has to hold there, and does. From it
come `OneMessage`, `RejectionIsSafe`, `SenderApproved`, `SuccessesVerify`,
`ChainAgrees`, `FeesMatch`, `TerminalStays`, and `PromiseKept`: under the refinement
mapping each step is one of `CaseLifecycle` or a stutter.

`RequestProofs` proves that without overlap a request looks like one step to its
caller (`RequestsAreWhole`). `StageInv` says in which state the case is while a
request is between two of its saves, which is what makes its abstract state the one it
had before; then the step that answers it is `Serve`, a refusal is `Refuse`, a
fault or a crash is `Cut`, and all others are stutters. `AnswersHold` is drawn from
the promise alone, by an invariant of `CaseRequests`, and carried over by the
refinement.

`CommitmentBinds` proves that each link of a receipt's chain binds all that comes
before it; of every receipt that verifies, `LinksAreNoticed` follows: a replacement in
`Linked` changes what some link binds (`LinkedDiffers`), and one in `Unlinked` changes
nothing that a check compares (`UnlinkedSame`).
`CardsTell` needs also `SandboxInv`: only the sandbox gets a request as far as a
receipt, since the live provider throws.

### How little may overlap

`~Overlap` is more than most of these properties need. `ApprovalsApart` says that no
two approvals of one case are at work at once, and leaves rejections and later
approvals free. `OnceInv` is what then stays true: an approval that has not sent yet
is on a case for which nobody has, and what a request carries to the end of a case
verifies against its record, unless a rejection overwrites that record first. So
`ApprovalsApartSendOnce` and `ApprovalsApartVerify` need only this, and
`race_two_sends` shows that the first does need it. `RejectedNeverSent`,
`FeeMatchesOutcome`, `ApprovalOnRecord`, `AnswersAreTrue` and `TerminalIsFinal` need
`~Overlap`: a late rejection overwrites a case that was sent. The property
`RejectionsMayOverlap` says what remains, of every behaviour in which approvals stay
apart: one send, a receipt that verifies, and an anchor that matches.
`orchestrator_progress` checks it without faults, and `RejectionsOverlap` proves it with
them.

### The page

`CasePageProofs` has `PagesDriveOrchestrator`: a behaviour of `CasePage` is one of
`Orchestrator`, so all of the above holds with the page in front. Its `PageInv` says
that what a page shows of a case, and what an answer carries, has the proposal that
is on record, since a proposal never changes once written (`Inv` again). With what
`Authorize` compares, `SentWasReviewed` follows: whatever tabs, stale pages and late
answers there are, the message sent is the one on the page when the user clicked.
`OwnInv` adds that everything is the one user's and that a busy page waits for
what made it busy (`PagesAreTyped`). Both hold with overlap.

Without it, `EndInv` says that every end that was seen, on a page, in an answer that
is still to come or in a report, is what is on record: `Follows` traces what a
page shows to an answer or to the record itself, and `TerminalStep` keeps the record
as it is. Hence `EndsAreFinal`, `EndsAreTrue` and `ReportsAreOfReceipts`.

### Compute, files, deployment

`ComputeProofs` proves, by `ComputeInv` on where a call is and what it has chosen,
that a result is called attested only if an enclave gave it (`AttestationIsHonest`),
whatever becomes of the provider's offer after it was chosen, and that every result is
one of those `Orchestrator` chooses among (`AnalysesAreImplemented`). That a provider
still offers a verifiability when the prompt is sent is not so: the list may have
changed since it was read. That is what entitles `Orchestrator` to take `analyze`
for one step. `AnalysesComeToAnEnd` proves, by a measure as for requests, that every
step of an analysis takes it on and that it does not end without a result.

`FileProofs` proves when a file is the register: `FileInv` says that a file being
saved is empty until it is whole, that one not being saved is the version saved
last unless a save of it was cut short, and that a get or a listing that met no save
has the size of the files that it has open. `FilesAreWhole`, `GetsAreLatest` and
`ListingsAreComplete` follow, for records of any lengths. Where saves do overlap, a
file may hold the start of one record and the end of another; `AnyInv` says that it
then still starts with the version saved last, as each write starts at the start and
no record is empty. A content that parses is all of one version, so a get that finds
a case never finds an older version (`GetsAreNeverStale`): saves that overlap may
lose a record, and do not bring an older one back. No run has this; it is proved only.

`DeploymentProofs` proves the five properties of the run without its bounds, and
`OwnerMovesOnly`: a record is changed only by the browser that submitted its case. Each of
the nine ways a handler may end is summarised once (`ServeIsHandled`), and `Growth`
says that what was sent and answered stays. `DeployInv` then says that a cookie is an
identity issued to that browser, and hence every request with it is that
browser's; that a record is of the identity its submission worked for, under a
key there has been; and that where all environments so far select one shared store, it
has every submitted case.

`RoutesKeepPromise` proves the promise of `CaseRequests`, and
`RoutesImplementRequests` draws the refinement from it. Beside `DeployInv` they need
that, as long as stores last, a case has one record and none is in an instance's own
directory (`OneRecord`): instances then share their places, and a record is made
only by the fetch that names it. Then each way a handler may end is a call's whole
effect, a refusal that saved nothing, or `FailsConfigured` by the instance that serves: a
submission to one that is not usable, and an approval on one whose key does not decrypt
the case, which stays `EXECUTING`. All other steps are stutters. Nothing is assumed of
keys or cookies. Where all environments are usable with one key, `FailsConfigured`
cannot happen, and what is left is `RoutesImplementRequests`.

`LifecycleProofs` proves of the abstract specification that no case has had its
message sent before approval or after rejection, that no success is reported of a
message that was not sent, and that a case only goes forward (`CasesGoForward`): it
never comes back to a state it has left.

Some facts that hold of every instance are left to the proofs and not run:
`TerminalStays`, `OwnerMovesOnly`, the measures `RequestsAdvance` and
`AnalysesAdvance`, and the types of `ComputeClient`, `FileCaseStore` and `Deployment`
(`ComputeTyped`, `FilesAreTyped`, `DeploymentTyped`).

### Only model-checked

- Liveness: `EveryRequestAnswered`, `CaseComesToRest`, `BusyEnds` and
  `EveryAnalysisReturns`, which rest on fairness. Of the first two and the last the
  safety part is proved: `RequestsComeToAnEnd`, `NoneIsLeft`, `AnalysesComeToAnEnd`.
- `StepsAreEnabled`: that a request can take its next step unless it waits for its
  transaction. It is about `ENABLED`.

## Not modelled

- `markCollected` of the ledger and `downloadJson` of storage, which nothing calls,
  and `GET /api/cases/[caseId]`, which no page fetches: it is the page's `getCase`
  with the status codes of the other routes.
- Of `packages/privacy`, `redact` and `logEvent`, which format text, and the
  registry of data flows, which is documentation in code. What keys do is in
  `Deployment`.
- Of the browser: the fields of the form and their validation (400), the stepper,
  the texts, and the static pages.
- The status page, which shows what is configured, and the script that deploys the
  contract.
- Redis and its client below GET and SET, and the broker and the chain below the
  calls that the code makes.

## Plan

Done: every component above with its runs, a proof of every safety property that a
passing run checks but `StepsAreEnabled`, both refinements of `Orchestrator` and that
of `Deployment`.
Left, in order of what matters most:

1. Larger instances, where they become affordable: two cases with faults in
   `orchestrator_serial`, a fourth fetch in `deployment`.
2. `Deployment` over `Orchestrator` itself: both implement `CaseRequests`, so for a
   caller they agree; the handler's step as a refinement of the handler's awaits,
   with fees, receipts and anchors, is left.
3. `markCollected` and `downloadJson`, once the application calls them.
