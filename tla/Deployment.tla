----------------------------- MODULE Deployment -----------------------------
(***************************************************************************)
(* What stands between browsers and the orchestrator of apps/web: the      *)
(* anonymous identity in a cookie (lib/server/identity.ts), the routes     *)
(* with their status codes (lib/server/httpErrors.ts), and the instances   *)
(* of lib/server/orchestrator.ts, each with the configuration it started   *)
(* with: its key, and the store that its environment selects.              *)
(*                                                                         *)
(* A route's handler is one step here: what happens between its awaits is  *)
(* Orchestrator's subject.  This module is about what spans requests: the  *)
(* cookie of a browser, instances that are replaced, a host whose          *)
(* configuration changes while its cases stay.                             *)
(*                                                                         *)
(* A fetch names the case it submits and the identity it is issued, as     *)
(* both are random ids made in its handler.                                *)
(***************************************************************************)
EXTENDS CaseMachine, Naturals, FiniteSets

CONSTANTS
  Browser, Fetch, Instance,
  Key,           \* well-formed encryption keys
  Environment,   \* the environments that a deployment may be given
  MaxChanges,    \* how often it may be given another (a bound)
  MaxClears,     \* how many browsers clear their cookies (a bound)
  MaxLost,       \* how many fetches are lost (a bound)
  Null

\* kv are the variables of the Redis integration that are set; dir is what
\* CLAWBACK_DATA_DIR names: a disk that all instances share, the /tmp of each,
\* or a directory that cannot be written.
Config == [key : Key \cup {"unset", "malformed"}, kv : SUBSET {"url", "token"},
           dir : {"disk", "tmp", "readonly"}]

\* What deployment needs of a record.
Record == [owner : Fetch, key : Key, state : CaseState]

\* The status codes of the answers.
Code == {200, 201, 403, 404, 409, 500}

ASSUME DeploymentAssumption ==
  /\ Environment \subseteq Config
  /\ "unset" \notin Key /\ "malformed" \notin Key
  /\ Null \notin Fetch \cup Browser \cup Code /\ Null \notin Record
  /\ Null \notin [kind : {"submit", "approve", "reject"}, case : Fetch]
  /\ Instance \cap {"redis", "disk", "readonly"} = {}

VARIABLES
  env,        \* the environment that instances now start with
  instance,   \* [Instance -> the environment it started with]
  records,    \* [Place -> [Fetch -> the record of the case submitted by it]]
  jar,        \* [Browser -> the identity its cookie holds, or Null]
  fetch,      \* [Fetch -> Exchange]
  envs,       \* the environments there have been (history)
  cleared,    \* browsers that cleared their cookies (history)
  raced       \* browsers that had two fetches without a cookie at once (history)

vars == <<env, instance, records, jar, fetch, envs, cleared, raced>>

Place == {"redis", "disk", "readonly"} \cup Instance

Kind == {"submit", "page", "approve", "reject", "verify"}

\* owner is the identity the handler worked for.  A fetch that is lost to the
\* browser may still be served.  Forms are complete (a route answers 400 to
\* others before it does anything), and an approval names the proposal on record
\* (Orchestrator has those that name another).
Exchange ==
  [ phase : {"unused", "sent", "told", "lost"}, browser : Browser \cup {Null}, kind : Kind,
    case : Fetch \cup {Null}, cookie : Fetch \cup {Null}, owner : Fetch \cup {Null},
    status : Code \cup {Null} ]

TypeOK ==
  /\ env \in Environment /\ envs \subseteq Environment
  /\ instance \in [Instance -> Environment]
  /\ records \in [Place -> [Fetch -> Record \cup {Null}]]
  /\ jar \in [Browser -> Fetch \cup {Null}]
  /\ fetch \in [Fetch -> Exchange]
  /\ cleared \subseteq Browser /\ raced \subseteq Browser

Unused == [phase |-> "unused", browser |-> Null, kind |-> "submit", case |-> Null,
           cookie |-> Null, owner |-> Null, status |-> Null]

Empty == [c \in Fetch |-> Null]

Init ==
  /\ env \in Environment /\ envs = {env}
  /\ instance = [i \in Instance |-> env]
  /\ records = [p \in Place |-> Empty]
  /\ jar = [b \in Browser |-> Null]
  /\ fetch = [f \in Fetch |-> Unused]
  /\ cleared = {} /\ raced = {}

-----------------------------------------------------------------------------
(* What an instance is configured with.                                    *)

\* Both variables, or no Redis.
KvConfigured(e) == e.kv = {"url", "token"}

\* Variant: a directory that is configured comes first.
PlaceOfDirectory(i) ==
  IF instance[i].dir = "tmp" THEN i
  ELSE IF KvConfigured(instance[i]) THEN "redis" ELSE instance[i].dir

\* Where the store of an instance keeps its cases.
PlaceOf(i) ==
  IF KvConfigured(instance[i]) THEN "redis"
  ELSE IF instance[i].dir = "tmp" THEN i ELSE instance[i].dir

KeyOf(i) == instance[i].key

\* getOrchestrator throws without a key; a malformed one is only found by the
\* first call that encrypts or decrypts with it.
Ready(i) == KeyOf(i) # "unset"

Encrypts(i) == KeyOf(i) # "malformed"

Decrypts(i, record) == KeyOf(i) = record.key

-----------------------------------------------------------------------------
(* What browsers do.                                                       *)

Pending(f) == fetch[f].phase = "sent"

Cookieless(b) == { f \in Fetch : Pending(f) /\ fetch[f].browser = b /\ fetch[f].cookie = Null }

\* Cases that were submitted: their ids are in the answers, and in URLs that a
\* user may open in any browser.
Submitted == { c \in Fetch : fetch[c].status = 201 }

Send(b, f) ==
  \E kind \in Kind :
  \E c \in IF kind = "submit" THEN {Null} ELSE Submitted :
    /\ fetch[f].phase = "unused"
    /\ fetch' = [fetch EXCEPT ![f] =
         [Unused EXCEPT !.phase = "sent", !.browser = b, !.kind = kind, !.case = c,
                        !.cookie = jar[b]]]
    /\ raced' = IF jar[b] = Null /\ Cookieless(b) # {} THEN raced \cup {b} ELSE raced
    /\ UNCHANGED <<env, instance, records, jar, envs, cleared>>

\* The answer arrives; if it issued an identity, its Set-Cookie replaces what
\* the browser has.
Receive(f) ==
  LET b == fetch[f].browser
  IN /\ Pending(f) /\ fetch[f].status # Null
     /\ fetch' = [fetch EXCEPT ![f].phase = "told"]
     /\ jar' = IF fetch[f].owner = f THEN [jar EXCEPT ![b] = f] ELSE jar
     /\ UNCHANGED <<env, instance, records, envs, cleared, raced>>

\* The connection is lost, before the request arrives or after.
Lose(f) ==
  /\ Pending(f) /\ Cardinality({ g \in Fetch : fetch[g].phase = "lost" }) < MaxLost
  /\ fetch' = [fetch EXCEPT ![f].phase = "lost"]
  /\ UNCHANGED <<env, instance, records, jar, envs, cleared, raced>>

ClearCookies(b) ==
  /\ jar[b] # Null /\ Cardinality(cleared) < MaxClears
  /\ jar' = [jar EXCEPT ![b] = Null]
  /\ cleared' = cleared \cup {b}
  /\ UNCHANGED <<env, instance, records, fetch, envs, raced>>

-----------------------------------------------------------------------------
(* What the routes do.                                                     *)

\* Variant: every request gets an identity of its own.
FreshOwner(f) == f

\* getOrCreateOwnerId: the cookie's, or a new one.
Owner(f) == IF fetch[f].cookie = Null THEN f ELSE fetch[f].cookie

Arrived(f) == fetch[f].phase \in {"sent", "lost"} /\ fetch[f].status = Null

Answer(f, status) ==
  /\ fetch' = [fetch EXCEPT ![f].status = status, ![f].owner = Owner(f)]
  /\ UNCHANGED <<env, instance, jar, envs, cleared, raced>>

\* Variant: IllegalTransitionError is not told from other errors.
errorResponseOfTwo(error) ==
  CASE error = "UnauthorizedCaseAccessError" -> 403
    [] error = "CaseNotFoundError"           -> 404
    [] OTHER                                 -> 500

errorResponse(error) ==
  CASE error = "UnauthorizedCaseAccessError" -> 403
    [] error = "CaseNotFoundError"           -> 404
    [] error \in {"IllegalTransitionError", "ProposalMismatchError"} -> 409
    [] OTHER                                 -> 500

\* The page's own answer: a case of someone else is not there.
Status(f, error) ==
  IF fetch[f].kind = "page" /\ error = "UnauthorizedCaseAccessError" THEN 404
  ELSE errorResponse(error)

Show(f) == Answer(f, 200) /\ UNCHANGED records

Fail(f, error) == Answer(f, Status(f, error)) /\ UNCHANGED records

\* The page of a case is rendered by a server component, where a cookie can be
\* read but not set (Next.js throws): a browser without one sees an error page.
Stranger(f) ==
  /\ Arrived(f) /\ fetch[f].kind = "page" /\ fetch[f].cookie = Null
  /\ fetch' = [fetch EXCEPT ![f].status = 500]
  /\ UNCHANGED <<env, instance, records, jar, envs, cleared, raced>>

\* The handler has an identity.
Identified(f) ==
  /\ Arrived(f)
  /\ fetch[f].kind = "page" => fetch[f].cookie # Null

Unconfigured(i, f) == Identified(f) /\ ~Ready(i) /\ Fail(f, "Error")

Saved(i, c, record) == records' = [records EXCEPT ![PlaceOf(i)][c] = record]

\* submitCase encrypts the input before the record is created.
Submit(i, f) ==
  /\ Identified(f) /\ Ready(i) /\ fetch[f].kind = "submit"
  /\ IF Encrypts(i) /\ PlaceOf(i) # "readonly"
     THEN /\ Answer(f, 201)
          /\ Saved(i, f, [owner |-> Owner(f), key |-> KeyOf(i), state |-> "AWAITING_APPROVAL"])
     ELSE Fail(f, "Error")

\* What the instance's store has of the fetch's case.
Stored(i, f) == records[PlaceOf(i)][fetch[f].case]

Looks(i, f) == Identified(f) /\ Ready(i) /\ fetch[f].kind # "submit"

Missing(i, f) == Looks(i, f) /\ Stored(i, f) = Null /\ Fail(f, "CaseNotFoundError")

\* Variant: getForOwner returns the case of anyone.
AuthorizedAnyone(i, f) == Looks(i, f) /\ Stored(i, f) # Null

Authorized(i, f) == Looks(i, f) /\ Stored(i, f) # Null /\ Stored(i, f).owner = Owner(f)

Forbidden(i, f) ==
  /\ Looks(i, f) /\ Stored(i, f) # Null /\ ~Authorized(i, f)
  /\ Fail(f, "UnauthorizedCaseAccessError")

Read(i, f) == Authorized(i, f) /\ fetch[f].kind = "page" /\ Show(f)

Reject(i, f) ==
  /\ Authorized(i, f) /\ fetch[f].kind = "reject"
  /\ IF Legal(Stored(i, f).state, "REJECT")
     THEN /\ Saved(i, fetch[f].case, [Stored(i, f) EXCEPT !.state = "REJECTED"])
          /\ Answer(f, 200)
     ELSE Fail(f, "IllegalTransitionError")

\* Variant: the error of sendAction is let out.
ApproveThrowing(i, f) ==
  /\ Authorized(i, f) /\ fetch[f].kind = "approve"
  /\ IF ~Legal(Stored(i, f).state, "APPROVE")
     THEN Fail(f, "IllegalTransitionError")
     ELSE \E state \in IF Decrypts(i, Stored(i, f))
                       THEN {"VERIFIED_SUCCESS", "EXECUTING"} ELSE {"EXECUTING"} :
            /\ Saved(i, fetch[f].case, [Stored(i, f) EXCEPT !.state = state])
            /\ Answer(f, IF state = "EXECUTING" THEN Status(f, "Error") ELSE 200)

\* approveAndExecute saves APPROVED and EXECUTING before it decrypts the input:
\* an instance with another key leaves the case there.  The simulator's answer
\* is a success or a silence.
Approve(i, f) ==
  /\ Authorized(i, f) /\ fetch[f].kind = "approve"
  /\ IF ~Legal(Stored(i, f).state, "APPROVE")
     THEN Fail(f, "IllegalTransitionError")
     ELSE \E state \in IF Decrypts(i, Stored(i, f))
                       THEN {"VERIFIED_SUCCESS", "EXECUTION_FAILED"} ELSE {"EXECUTING"} :
            /\ Saved(i, fetch[f].case, [Stored(i, f) EXCEPT !.state = state])
            /\ Answer(f, IF state = "EXECUTING" THEN Status(f, "Error") ELSE 200)

\* verifyCaseReceipt: a success has a receipt, and its input is decrypted.
Verify(i, f) ==
  /\ Authorized(i, f) /\ fetch[f].kind = "verify"
  /\ IF Stored(i, f).state = "VERIFIED_SUCCESS" /\ Decrypts(i, Stored(i, f))
     THEN Show(f) ELSE Fail(f, "Error")

Serve(i, f) ==
  \/ Stranger(f) \/ Unconfigured(i, f) \/ Submit(i, f)
  \/ Missing(i, f) \/ Forbidden(i, f)
  \/ Read(i, f) \/ Reject(i, f) \/ Approve(i, f) \/ Verify(i, f)

-----------------------------------------------------------------------------
(* What the host does.                                                     *)

\* An instance is replaced by a cold one, whose /tmp is empty and which reads the
\* environment, which may have been changed: an instance that is running keeps
\* what it has read (orchestratorSingleton, encryptionKeySingleton).
Replace(i) ==
  /\ env' \in {env} \cup IF Cardinality(envs) <= MaxChanges THEN Environment \ envs ELSE {}
  /\ envs' = envs \cup {env'}
  /\ instance' = [instance EXCEPT ![i] = env']
  /\ records' = [records EXCEPT ![i] = Empty]
  /\ UNCHANGED <<jar, fetch, cleared, raced>>

Next ==
  \/ \E b \in Browser : ClearCookies(b) \/ \E f \in Fetch : Send(b, f)
  \/ \E f \in Fetch : Receive(f) \/ Lose(f) \/ \E i \in Instance : Serve(i, f)
  \/ \E i \in Instance : Replace(i)

Spec == Init /\ [][Next]_vars

-----------------------------------------------------------------------------
\* Which browser a case, or an identity, comes from.
From(c) == fetch[c].browser

\* A browser is shown a case, and moves it, only if it submitted it, whatever
\* cookies come late, get lost or are cleared (identity.ts: "one browser
\* cannot read or approve another browser's case").
OnlyOwnCases ==
  \A f \in Fetch : fetch[f].status = 200 => From(fetch[f].case) = From(f)

\* A case changes only by a request of its browser, also one that fails.
OnlyOwnerMoves ==
  [][\A p \in Place, c \in Fetch :
       records[p][c] # Null /\ records'[p][c] \notin {records[p][c], Null} =>
         \E f \in Fetch : /\ From(f) = From(c) /\ fetch[f].status = Null
                          /\ fetch'[f].status # Null]_vars

\* The cases that a browser was told of are its cookie's, unless it cleared its
\* cookies or had two fetches without one at once: the answer that comes last
\* then sets the cookie, and the cases of the other identity are out of reach
\* (LIMITATIONS.md: "losing the cookie means losing access").
CookieOwnsCases ==
  \A c \in Fetch :
    /\ fetch[c].phase = "told" /\ fetch[c].status = 201
    /\ From(c) \notin cleared \cup raced
    => fetch[c].owner = jar[From(c)]

\* A case that was submitted is found by every later request on it of its own
\* browser, on any instance and over restarts, if the store was always Redis or
\* always a disk (store.ts: "Redis is external, shared state, so every instance
\* sees the same data").
CasesAreFound ==
  \/ \A e \in envs : KvConfigured(e)
  \/ \A e \in envs : ~KvConfigured(e) /\ e.dir = "disk"
  => \A f \in Fetch : fetch[f].status = 404 => fetch[f].owner # fetch[fetch[f].case].owner

KeyChanged == \E e1, e2 \in envs : e1.key # e2.key

\* No case stays EXECUTING unless the key was changed between its submission
\* and its approval.
StuckOnlyAfterKeyChange ==
  \A p \in Place, c \in Fetch :
    records[p][c] # Null /\ records[p][c].state = "EXECUTING" => KeyChanged

Usable(e) == e.key \in Key /\ (KvConfigured(e) \/ e.dir # "readonly")

\* A case that stays EXECUTING is due to a key that was changed, and with an
\* environment that is usable and keeps its key, a request fails only if it is to
\* verify a receipt, which the case may not have, or for a page without a cookie
\* (httpErrors.ts: "an unhandled error at this point can only be an infra/config
\* problem"; these two are not).
ErrorsAreConfiguration ==
  /\ StuckOnlyAfterKeyChange
  /\ (\A e \in envs : Usable(e)) /\ ~KeyChanged =>
       \A f \in Fetch : fetch[f].status = 500 =>
         \/ fetch[f].kind = "verify"
         \/ fetch[f].kind = "page" /\ fetch[f].cookie = Null

-----------------------------------------------------------------------------
(* The routes and the promise of CaseRequests.                             *)

\* What an instance keeps there outlives it.
Durable(e) == KvConfigured(e) \/ e.dir # "tmp"

\* So far every environment was such.
Lasting == \A e \in envs : Durable(e)

PlacesOf(c) == { p \in Place : records[p][c] # Null }

StateOf(c) ==
  IF PlacesOf(c) = {} THEN "ABSENT" ELSE records[CHOOSE p \in PlacesOf(c) : TRUE][c].state

\* The fetches of the routes that call a method on a case.
Calls(f) == fetch[f].phase # "unused" /\ fetch[f].kind \in {"submit", "approve", "reject"}

CaseOf(f) == IF fetch[f].kind = "submit" THEN f ELSE fetch[f].case

AskedBy(f) == IF Calls(f) THEN [kind |-> fetch[f].kind, case |-> CaseOf(f)] ELSE Null

AnswerTo(f) ==
  IF ~Calls(f) \/ fetch[f].status = Null THEN "none"
  ELSE IF fetch[f].status \in {200, 201} THEN "done" ELSE "failed"

States == [c \in Fetch |-> StateOf(c)]

Asked == [f \in Fetch |-> AskedBy(f)]

Answers == [f \in Fetch |-> AnswerTo(f)]

Requests == INSTANCE CaseRequests WITH
  Case <- Fetch, Request <- Fetch, Faults <- FALSE,
  state <- States, asked <- Asked, answer <- Answers

\* The whole promise: what the routes keep if every environment is usable, with the
\* same key and a store that outlives the instances.
ImplementsRequests == Requests!Spec

\* What instance i may do to a call for want of a configuration of its own: it makes
\* no case of a submission if it is not usable, and it leaves a case EXECUTING that
\* waited for the approval if it cannot decrypt it.
FailsConfigured(i, f) ==
  /\ Serve(i, f)
  /\ Answers' = [Answers EXCEPT ![f] = "failed"] /\ UNCHANGED Asked
  /\ \/ fetch[f].kind = "submit" /\ ~Usable(instance[i]) /\ UNCHANGED States
     \/ /\ fetch[f].kind = "approve" /\ Authorized(i, f) /\ ~Decrypts(i, Stored(i, f))
        /\ States[fetch[f].case] = "AWAITING_APPROVAL"
        /\ States' = [States EXCEPT ![fetch[f].case] = "EXECUTING"]

\* As long as every environment there has been selects a store that outlives the
\* instances, the routes keep to browsers what the methods promise, whatever else
\* was configured before or is elsewhere: an answer of 200 or 201 means that all of
\* it was done, another status that nothing was, unless the very instance that
\* answers cannot decrypt the case it is to act on, which it then leaves half way.
\* (Requests!vars is of records and fetch: steps that leave these alone stutter.)
PromiseWhileLasting ==
  /\ Requests!Init
  /\ [][Lasting =>
          \/ UNCHANGED Requests!vars
          \/ \E f \in Fetch : \/ Requests!Ask(f) \/ Requests!Serve(f) \/ Requests!Refuse(f)
                             \/ \E i \in Instance : FailsConfigured(i, f)]_<<records, fetch>>
==============================================================================
