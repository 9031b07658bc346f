-------------------------- MODULE DeploymentProofs --------------------------
(***************************************************************************)
(* Deployment's properties, for any number of browsers, fetches, instances *)
(* and environments, without a bound on what is lost, cleared or changed.  *)
(***************************************************************************)
EXTENDS Deployment, TLAPS

\* The answer to k gave its browser b the identity k.
IssuedTo(k, b) == fetch[k].owner = k /\ From(k) = b

\* Instances run with environments there have been.
EnvsKnown == env \in envs /\ \A i \in Instance : instance[i] \in envs

\* What is known of a fetch, at any time.
ExchangeOK(f) ==
  /\ fetch[f].phase = "unused" => fetch[f] = Unused
  /\ fetch[f].phase # "unused" =>
       From(f) \in Browser /\ (fetch[f].kind # "submit" => fetch[f].case \in Submitted)
  /\ fetch[f].owner # Null => fetch[f].status # Null /\ fetch[f].owner = Owner(f)
  /\ fetch[f].cookie # Null => fetch[f].cookie # f /\ IssuedTo(fetch[f].cookie, From(f))
  /\ fetch[f].status = 201 => fetch[f].owner = Owner(f)
  /\ fetch[f].status \in {200, 404} => fetch[f].case \in Submitted

\* A record is that of its fetch's handler, under a key there has been.
RecordOK(p, c) ==
  records[p][c] # Null =>
    /\ fetch[c].status = 201 /\ records[p][c].owner = fetch[c].owner
    /\ \E e \in envs : records[p][c].key = e.key

\* What a browser's cookie has to do with its fetches, if it never cleared its
\* cookies and never had two fetches without one at once.
JarOK(b) ==
  /\ jar[b] # Null => IssuedTo(jar[b], b)
  /\ b \notin cleared \cup raced =>
       \A f \in Fetch : From(f) = b =>
         /\ jar[b] = Null =>
              /\ fetch[f].cookie = Null
              /\ fetch[f].phase = "told" => fetch[f].owner = Null
              /\ \A g \in Cookieless(b) : Pending(f) => f = g
         /\ jar[b] # Null =>
              /\ Pending(f) => fetch[f].cookie = jar[b]
              /\ fetch[f].phase = "told" => fetch[f].owner \in {jar[b], Null}

\* Where every instance there has been keeps its cases.
AlwaysAt(p) ==
  \/ p = "redis" /\ \A e \in envs : KvConfigured(e)
  \/ p = "disk" /\ \A e \in envs : ~KvConfigured(e) /\ e.dir = "disk"

\* What is kept there is never missing.
KeptAt(p) == AlwaysAt(p) => \A c \in Submitted : records[p][c] # Null

DeployInv ==
  /\ TypeOK /\ EnvsKnown
  /\ \A f \in Fetch : ExchangeOK(f)
  /\ \A p \in Place, c \in Fetch : RecordOK(p, c)
  /\ \A b \in Browser : JarOK(b)
  /\ KeptAt("redis") /\ KeptAt("disk")
  /\ OnlyOwnCases /\ CasesAreFound /\ ErrorsAreConfiguration

-----------------------------------------------------------------------------
\* The answer to f is s, to o.
Replied(f, s, o) ==
  /\ fetch' = [fetch EXCEPT ![f].status = s, ![f].owner = o]
  /\ UNCHANGED <<env, instance, jar, envs, cleared, raced>>

\* What is true of the handler of f when instance i answers s as o.
Handled(i, f, s, o) ==
  /\ Arrived(f) /\ Replied(f, s, o)
  /\ \/ o = Owner(f)
     \/ o = Null /\ s = 500
  /\ s = 200 => Authorized(i, f)
  /\ s = 404 => Looks(i, f) /\ (Stored(i, f) = Null \/ Stored(i, f).owner # o)
  /\ s = 500 => \/ ~Usable(instance[i]) \/ KeyChanged
                \/ fetch[f].kind = "verify"
                \/ fetch[f].kind = "page" /\ fetch[f].cookie = Null
  /\ \/ s # 201 /\ UNCHANGED records
     \/ /\ s = 201 /\ PlaceOf(i) # "readonly" /\ KeyOf(i) \in Key /\ o = Owner(f)
        /\ Saved(i, f, [owner |-> Owner(f), key |-> KeyOf(i), state |-> "AWAITING_APPROVAL"])
     \/ /\ s # 201 /\ Authorized(i, f)
        /\ \E state \in CaseState :
             /\ state = "EXECUTING" => KeyChanged
             /\ Saved(i, fetch[f].case, [Stored(i, f) EXCEPT !.state = state])

\* An instance keeps its cases in one of the places.
LEMMA PlaceTyped ==
  ASSUME DeploymentAssumption, TypeOK, NEW i \in Instance
  PROVE  /\ instance[i] \in Config /\ PlaceOf(i) \in Place
         /\ Usable(instance[i]) => PlaceOf(i) # "readonly" /\ KeyOf(i) \in Key
<1>1. instance[i] \in Config
  BY DEF TypeOK, DeploymentAssumption
<1>2. instance[i].dir \in {"disk", "tmp", "readonly"}
  BY <1>1 DEF Config
<1>3. PlaceOf(i) \in Place
  BY <1>2 DEF PlaceOf, Place
<1>4. i # "readonly"
  BY DEF DeploymentAssumption
<1>5. Usable(instance[i]) => PlaceOf(i) # "readonly" /\ KeyOf(i) \in Key
  BY <1>4 DEF Usable, PlaceOf, KeyOf
<1> QED BY <1>1, <1>3, <1>5

\* An identity is that of a fetch.
LEMMA OwnerTyped ==
  ASSUME TypeOK, NEW f \in Fetch
  PROVE  Owner(f) \in Fetch
<1>1. fetch[f].cookie \in Fetch \cup {Null}
  BY DEF TypeOK, Exchange
<1> QED BY <1>1 DEF Owner

\* The handlers in one formula.
LEMMA ServeIsHandled ==
  ASSUME DeploymentAssumption, DeployInv, NEW i \in Instance, NEW f \in Fetch, Serve(i, f)
  PROVE  \E s \in Code, o \in Fetch \cup {Null} : Handled(i, f, s, o)
<1> USE DEF Code
<1>0. TypeOK /\ Owner(f) \in Fetch
  BY OwnerTyped DEF DeployInv
<1>a. \A s : Answer(f, s) => Replied(f, s, Owner(f))
  BY DEF Answer, Replied
<1>1. CASE Stranger(f)
  <2>1. Replied(f, 500, Null)
    <3>1. fetch[f].owner = Null
      BY <1>0, <1>1 DEF Stranger, Arrived, DeployInv, ExchangeOK
    <3>2. fetch \in [Fetch -> Exchange]
      BY <1>0 DEF TypeOK
    <3>3. fetch'[f].owner = Null /\ fetch' \in [Fetch -> Exchange]
      BY <1>1, <3>1, <3>2 DEF Stranger, Exchange
    <3>4. fetch' = [fetch' EXCEPT ![f].owner = Null]
      <4>1. [fetch'[f] EXCEPT !.owner = Null] = fetch'[f]
        BY <3>3 DEF Exchange
      <4> QED BY <3>3, <4>1
    <3>5. fetch' = [fetch EXCEPT ![f].status = 500]
      BY <1>1 DEF Stranger
    <3> QED BY <1>1, <3>4, <3>5 DEF Stranger, Replied
  <2>2. Handled(i, f, 500, Null)
    BY <1>a, <1>1, <2>1 DEF Stranger, Handled
  <2> QED BY <2>2
<1>2. CASE Unconfigured(i, f)
  <2>1. ~Usable(instance[i])
    BY <1>2 DEF Unconfigured, Usable, Ready, KeyOf, DeploymentAssumption
  <2>2. Status(f, "Error") = 500
    BY DEF Status, errorResponse
  <2>3. Handled(i, f, 500, Owner(f))
    BY <1>a, <1>2, <2>1, <2>2 DEF Unconfigured, Fail, Handled, Identified
  <2> QED BY <1>0, <2>3
<1>3. CASE Submit(i, f)
  <2>1. CASE Encrypts(i) /\ PlaceOf(i) # "readonly"
    <3>1. instance[i].key \in Key \cup {"unset", "malformed"}
      BY <1>0, PlaceTyped DEF Config
    <3>2. KeyOf(i) \in Key
      BY <1>3, <2>1, <3>1 DEF Submit, Ready, Encrypts, KeyOf
    <3>3. Handled(i, f, 201, Owner(f))
      BY <1>a, <1>3, <2>1, <3>2 DEF Submit, Handled, Identified
    <3> QED BY <1>0, <3>3
  <2>2. CASE ~(Encrypts(i) /\ PlaceOf(i) # "readonly")
    <3>1. ~Usable(instance[i])
      BY <1>0, <2>2, PlaceTyped DEF Encrypts, KeyOf, DeploymentAssumption
    <3>2. Status(f, "Error") = 500
      BY DEF Status, errorResponse
    <3>3. Handled(i, f, 500, Owner(f))
      BY <1>a, <1>3, <2>2, <3>1, <3>2 DEF Submit, Fail, Handled, Identified
    <3> QED BY <1>0, <3>3
  <2> QED BY <2>1, <2>2
<1>4. CASE Missing(i, f)
  <2>1. Status(f, "CaseNotFoundError") = 404
    BY DEF Status, errorResponse
  <2>2. Handled(i, f, 404, Owner(f))
    BY <1>a, <1>4, <2>1 DEF Missing, Fail, Handled, Looks, Identified
  <2> QED BY <1>0, <2>2
<1>5. CASE Forbidden(i, f)
  <2>1. Status(f, "UnauthorizedCaseAccessError") \in {403, 404}
    BY DEF Status, errorResponse
  <2>2. Stored(i, f).owner # Owner(f)
    BY <1>5 DEF Forbidden, Authorized
  <2>3. Handled(i, f, Status(f, "UnauthorizedCaseAccessError"), Owner(f))
    BY <1>a, <1>5, <2>1, <2>2 DEF Forbidden, Fail, Handled, Looks, Identified
  <2> QED BY <1>0, <2>1, <2>3
<1>6. CASE Read(i, f)
  <2>1. Handled(i, f, 200, Owner(f))
    BY <1>a, <1>6 DEF Read, Show, Handled, Authorized, Looks, Identified
  <2> QED BY <1>0, <2>1
<1>7. CASE Reject(i, f)
  <2>1. Status(f, "IllegalTransitionError") = 409
    BY DEF Status, errorResponse
  <2>2. Arrived(f) /\ Authorized(i, f)
    BY <1>7 DEF Reject, Authorized, Looks, Identified
  <2>3. CASE Legal(Stored(i, f).state, "REJECT")
    <3>1. Handled(i, f, 200, Owner(f))
      BY <1>a, <1>7, <2>2, <2>3 DEF Reject, Handled, CaseState
    <3> QED BY <1>0, <3>1
  <2>4. CASE ~Legal(Stored(i, f).state, "REJECT")
    <3>1. Handled(i, f, 409, Owner(f))
      BY <1>a, <1>7, <2>1, <2>2, <2>4 DEF Reject, Fail, Handled
    <3> QED BY <1>0, <3>1
  <2> QED BY <2>3, <2>4
<1>8. CASE Approve(i, f)
  <2>1. Status(f, "IllegalTransitionError") = 409 /\ Status(f, "Error") = 500
    BY DEF Status, errorResponse
  <2>2. Arrived(f) /\ Authorized(i, f) /\ Looks(i, f)
    BY <1>8 DEF Approve, Authorized, Looks, Identified
  <2>3. CASE ~Legal(Stored(i, f).state, "APPROVE")
    <3>1. Handled(i, f, 409, Owner(f))
      BY <1>a, <1>8, <2>1, <2>2, <2>3 DEF Approve, Fail, Handled
    <3> QED BY <1>0, <3>1
  <2>4. CASE Legal(Stored(i, f).state, "APPROVE")
    <3>1. PICK state \in IF Decrypts(i, Stored(i, f))
                         THEN {"VERIFIED_SUCCESS", "EXECUTION_FAILED"} ELSE {"EXECUTING"} :
            /\ Saved(i, fetch[f].case, [Stored(i, f) EXCEPT !.state = state])
            /\ Answer(f, IF state = "EXECUTING" THEN Status(f, "Error") ELSE 200)
      BY <1>8, <2>4 DEF Approve
    <3>2. state \in CaseState
      BY DEF CaseState
    <3>3. CASE Decrypts(i, Stored(i, f))
      <4>1. Handled(i, f, 200, Owner(f))
        BY <1>a, <2>2, <3>1, <3>2, <3>3 DEF Handled
      <4> QED BY <1>0, <4>1
    <3>4. CASE ~Decrypts(i, Stored(i, f))
      <4>1. KeyChanged
        <5>1. fetch[f].case \in Fetch /\ PlaceOf(i) \in Place
          BY <1>0, <2>2, PlaceTyped DEF Looks, Identified, Arrived, DeployInv, ExchangeOK, Submitted
        <5>2. \E e \in envs : Stored(i, f).key = e.key
          BY <2>2, <5>1 DEF DeployInv, RecordOK, Stored, Authorized
        <5> QED BY <3>4, <5>2 DEF KeyChanged, Decrypts, KeyOf, DeployInv, EnvsKnown
      <4>2. Handled(i, f, 500, Owner(f))
        BY <1>a, <2>1, <2>2, <3>1, <3>2, <3>4, <4>1 DEF Handled
      <4> QED BY <1>0, <4>2
    <3> QED BY <3>3, <3>4
  <2> QED BY <2>3, <2>4
<1>9. CASE Verify(i, f)
  <2>1. Status(f, "Error") = 500
    BY DEF Status, errorResponse
  <2>2. Arrived(f) /\ Authorized(i, f) /\ fetch[f].kind = "verify" /\ UNCHANGED records
    BY <1>9 DEF Verify, Authorized, Looks, Identified, Show, Fail
  <2>3. \E s \in {200, 500} : Answer(f, s)
    BY <1>9, <2>1 DEF Verify, Show, Fail
  <2>4. \E s \in {200, 500} : Handled(i, f, s, Owner(f))
    BY <1>a, <2>2, <2>3 DEF Handled
  <2> QED BY <1>0, <2>4
<1> QED BY <1>1, <1>2, <1>3, <1>4, <1>5, <1>6, <1>7, <1>8, <1>9 DEF Serve

-----------------------------------------------------------------------------
\* What has been sent or answered stays as it is.
Grown ==
  \A f \in Fetch :
    /\ fetch[f].phase # "unused" =>
         /\ fetch'[f].phase # "unused" /\ fetch'[f].browser = fetch[f].browser
         /\ fetch'[f].kind = fetch[f].kind /\ fetch'[f].case = fetch[f].case
         /\ fetch'[f].cookie = fetch[f].cookie
    /\ fetch[f].status # Null =>
         fetch'[f].status = fetch[f].status /\ fetch'[f].owner = fetch[f].owner

\* The fetch that Send makes.
Request(b, kind, c) ==
  [Unused EXCEPT !.phase = "sent", !.browser = b, !.kind = kind, !.case = c, !.cookie = jar[b]]

\* Send in one formula.
LEMMA SendIsRequest ==
  ASSUME TypeOK, NEW b \in Browser, NEW f \in Fetch, Send(b, f)
  PROVE  \E kind \in Kind, c \in Fetch \cup {Null} :
           /\ fetch' = [fetch EXCEPT ![f] = Request(b, kind, c)]
           /\ kind # "submit" => c \in Submitted
<1>1. PICK kind \in Kind :
        \E c \in IF kind = "submit" THEN {Null} ELSE Submitted :
          fetch' = [fetch EXCEPT ![f] = Request(b, kind, c)]
  BY Zenon DEF Send, Request
<1>2. PICK c \in IF kind = "submit" THEN {Null} ELSE Submitted :
        fetch' = [fetch EXCEPT ![f] = Request(b, kind, c)]
  BY <1>1
<1>3. c \in Fetch \cup {Null} /\ (kind # "submit" => c \in Submitted)
  BY DEF Submitted
<1> QED BY <1>2, <1>3, Zenon

\* A fetch may be in any phase.
LEMMA PhaseTyped ==
  ASSUME TypeOK, NEW f \in Fetch, NEW phase \in {"unused", "sent", "told", "lost"}
  PROVE  [fetch EXCEPT ![f].phase = phase] \in [Fetch -> Exchange]
<1>1. [fetch[f] EXCEPT !.phase = phase] \in Exchange
  BY DEF TypeOK, Exchange
<1> QED BY <1>1 DEF TypeOK

\* Every step keeps the types.
LEMMA TypeKept ==
  ASSUME DeploymentAssumption, DeployInv, Next
  PROVE  TypeOK'
<1>0. TypeOK
  BY DEF DeployInv
<1>1. ASSUME NEW b \in Browser, ClearCookies(b) PROVE TypeOK'
  BY <1>0, <1>1 DEF ClearCookies, TypeOK
<1>2. ASSUME NEW b \in Browser, NEW f \in Fetch, Send(b, f) PROVE TypeOK'
  <2>1. PICK kind \in Kind, c \in Fetch \cup {Null} :
          fetch' = [fetch EXCEPT ![f] = Request(b, kind, c)]
    BY <1>0, <1>2, SendIsRequest
  <2>2. fetch' \in [Fetch -> Exchange]
    <3>1. Request(b, kind, c) \in Exchange
      BY <1>0 DEF TypeOK, Exchange, Request, Unused, Kind
    <3> QED BY <1>0, <2>1, <3>1 DEF TypeOK
  <2>3. raced' \subseteq Browser
    BY <1>0, <1>2 DEF Send, TypeOK
  <2> QED BY <1>0, <1>2, <2>2, <2>3 DEF Send, TypeOK
<1>3. ASSUME NEW f \in Fetch, Receive(f) PROVE TypeOK'
  <2>1. fetch' \in [Fetch -> Exchange]
    BY <1>0, <1>3, PhaseTyped DEF Receive
  <2>2. jar' \in [Browser -> Fetch \cup {Null}]
    BY <1>0, <1>3 DEF Receive, TypeOK
  <2> QED BY <1>0, <1>3, <2>1, <2>2 DEF Receive, TypeOK
<1>4. ASSUME NEW f \in Fetch, Lose(f) PROVE TypeOK'
  <2>1. fetch' \in [Fetch -> Exchange]
    BY <1>0, <1>4, PhaseTyped DEF Lose
  <2> QED BY <1>0, <1>4, <2>1 DEF Lose, TypeOK
<1>5. ASSUME NEW f \in Fetch, NEW i \in Instance, Serve(i, f) PROVE TypeOK'
  <2>1. PICK s \in Code, o \in Fetch \cup {Null} : Handled(i, f, s, o)
    BY <1>5, ServeIsHandled
  <2>2. fetch' \in [Fetch -> Exchange]
    <3>1. /\ \A x \in Exchange : [x EXCEPT !.status = s] \in Exchange
          /\ \A x \in Exchange : [x EXCEPT !.owner = o] \in Exchange
      BY DEF Exchange
    <3>2. [fetch[f] EXCEPT !.status = s, !.owner = o] \in Exchange
      BY <1>0, <3>1 DEF TypeOK
    <3> QED BY <1>0, <2>1, <3>2 DEF Handled, Replied, TypeOK
  <2>3. PlaceOf(i) \in Place /\ Owner(f) \in Fetch
    BY <1>0, PlaceTyped, OwnerTyped
  <2>4. records' \in [Place -> [Fetch -> Record \cup {Null}]]
    <3>1. CASE UNCHANGED records
      BY <1>0, <3>1 DEF TypeOK
    <3>2. ASSUME KeyOf(i) \in Key,
            Saved(i, f, [owner |-> Owner(f), key |-> KeyOf(i), state |-> "AWAITING_APPROVAL"])
          PROVE records' \in [Place -> [Fetch -> Record \cup {Null}]]
      <4>1. [owner |-> Owner(f), key |-> KeyOf(i), state |-> "AWAITING_APPROVAL"] \in Record
        BY <2>3, <3>2 DEF Record, CaseState
      <4> QED BY <1>0, <2>3, <3>2, <4>1 DEF Saved, TypeOK
    <3>3. ASSUME Authorized(i, f), NEW state \in CaseState,
            Saved(i, fetch[f].case, [Stored(i, f) EXCEPT !.state = state])
          PROVE records' \in [Place -> [Fetch -> Record \cup {Null}]]
      <4>1. fetch[f].case \in Fetch
        BY <3>3 DEF Authorized, Looks, Identified, Arrived, DeployInv, ExchangeOK, Submitted
      <4>2. Stored(i, f) \in Record
        BY <1>0, <2>3, <3>3, <4>1 DEF Authorized, Stored, TypeOK
      <4>3. [Stored(i, f) EXCEPT !.state = state] \in Record
        BY <4>2 DEF Record
      <4> QED BY <1>0, <2>3, <3>3, <4>1, <4>3 DEF Saved, TypeOK
    <3>4. \/ UNCHANGED records
          \/ /\ KeyOf(i) \in Key
             /\ Saved(i, f, [owner |-> Owner(f), key |-> KeyOf(i),
                             state |-> "AWAITING_APPROVAL"])
          \/ /\ Authorized(i, f)
             /\ \E state \in CaseState :
                  Saved(i, fetch[f].case, [Stored(i, f) EXCEPT !.state = state])
      BY <2>1 DEF Handled
    <3> QED BY <3>1, <3>2, <3>3, <3>4
  <2> QED BY <1>0, <2>1, <2>2, <2>4 DEF Handled, Replied, TypeOK
<1>6. ASSUME NEW i \in Instance, Replace(i) PROVE TypeOK'
  <2>1. env' \in Environment /\ envs' \subseteq Environment
    BY <1>0, <1>6 DEF Replace, TypeOK
  <2>2. instance' \in [Instance -> Environment]
    BY <1>0, <1>6, <2>1 DEF Replace, TypeOK
  <2>3. records' \in [Place -> [Fetch -> Record \cup {Null}]]
    BY <1>0, <1>6 DEF Replace, TypeOK, Place, Empty
  <2> QED BY <1>0, <1>6, <2>1, <2>2, <2>3 DEF Replace, TypeOK
<1> QED BY <1>1, <1>2, <1>3, <1>4, <1>5, <1>6 DEF Next

\* No step takes anything back.
LEMMA Growth ==
  ASSUME DeploymentAssumption, DeployInv, Next
  PROVE  Grown /\ envs \subseteq envs'
<1> USE DEF Grown
<1>0. fetch \in [Fetch -> Exchange] /\ \A f \in Fetch : ExchangeOK(f)
  BY DEF DeployInv, TypeOK
<1>1. ASSUME NEW b \in Browser, ClearCookies(b) PROVE Grown /\ envs \subseteq envs'
  BY <1>1 DEF ClearCookies
<1>2. ASSUME NEW b \in Browser, NEW f \in Fetch, Send(b, f) PROVE Grown /\ envs \subseteq envs'
  <2>1. fetch[f].phase = "unused" /\ fetch[f].status = Null
    BY <1>0, <1>2 DEF Send, ExchangeOK, Unused
  <2>2. \A g \in Fetch : g # f => fetch'[g] = fetch[g]
    BY <1>0, <1>2 DEF Send
  <2> QED BY <1>2, <2>1, <2>2 DEF Send
<1>3. ASSUME NEW f \in Fetch, Receive(f) PROVE Grown /\ envs \subseteq envs'
  BY <1>0, <1>3 DEF Receive, Exchange
<1>4. ASSUME NEW f \in Fetch, Lose(f) PROVE Grown /\ envs \subseteq envs'
  BY <1>0, <1>4 DEF Lose, Exchange
<1>5. ASSUME NEW f \in Fetch, NEW i \in Instance, Serve(i, f) PROVE Grown /\ envs \subseteq envs'
  <2>1. PICK s \in Code, o \in Fetch \cup {Null} : Handled(i, f, s, o)
    BY <1>5, ServeIsHandled
  <2> QED BY <1>0, <2>1 DEF Handled, Replied, Arrived, Exchange
<1>6. ASSUME NEW i \in Instance, Replace(i) PROVE Grown /\ envs \subseteq envs'
  BY <1>6 DEF Replace
<1> QED BY <1>1, <1>2, <1>3, <1>4, <1>5, <1>6 DEF Next

-----------------------------------------------------------------------------
\* A step of a browser.
OfBrowser ==
  \/ \E b \in Browser : ClearCookies(b) \/ \E f \in Fetch : Send(b, f)
  \/ \E f \in Fetch : Receive(f) \/ Lose(f)

\* Browsers do not touch the host.
LEMMA BrowsersLeaveHost ==
  ASSUME OfBrowser
  PROVE  UNCHANGED <<env, instance, records, envs>>
<1>1. ASSUME NEW b \in Browser, ClearCookies(b) PROVE UNCHANGED <<env, instance, records, envs>>
  BY <1>1 DEF ClearCookies
<1>2. ASSUME NEW b \in Browser, NEW f \in Fetch, Send(b, f)
      PROVE  UNCHANGED <<env, instance, records, envs>>
  BY <1>2 DEF Send
<1>3. ASSUME NEW f \in Fetch, Receive(f) PROVE UNCHANGED <<env, instance, records, envs>>
  BY <1>3 DEF Receive
<1>4. ASSUME NEW f \in Fetch, Lose(f) PROVE UNCHANGED <<env, instance, records, envs>>
  BY <1>4 DEF Lose
<1> QED BY <1>1, <1>2, <1>3, <1>4, Zenon DEF OfBrowser

\* Instances start with an environment that is or was current.
LEMMA EnvsKept ==
  ASSUME DeploymentAssumption, DeployInv, Next
  PROVE  EnvsKnown'
<1>0. EnvsKnown /\ TypeOK
  BY DEF DeployInv
<1>1. CASE OfBrowser
  BY <1>0, <1>1, BrowsersLeaveHost DEF EnvsKnown
<1>2. ASSUME NEW f \in Fetch, NEW i \in Instance, Serve(i, f) PROVE EnvsKnown'
  <2>1. PICK s \in Code, o \in Fetch \cup {Null} : Handled(i, f, s, o)
    BY <1>2, ServeIsHandled
  <2> QED BY <1>0, <2>1 DEF Handled, Replied, EnvsKnown
<1>3. ASSUME NEW i \in Instance, Replace(i) PROVE EnvsKnown'
  <2>1. envs' = envs \cup {env'} /\ instance' = [instance EXCEPT ![i] = env']
    BY <1>3 DEF Replace
  <2>2. instance \in [Instance -> Environment]
    BY <1>0 DEF TypeOK
  <2> QED BY <1>0, <2>1, <2>2 DEF EnvsKnown
<1> QED BY <1>1, <1>2, <1>3 DEF Next, OfBrowser

\* After the step, k is b's identity.
StillIssuedTo(k, b) == fetch'[k].owner = k /\ fetch'[k].browser = b

\* What is known of other fetches stays known.
LEMMA KnowledgeStays ==
  ASSUME DeploymentAssumption, DeployInv, Grown, TypeOK'
  PROVE  /\ Submitted \subseteq Submitted'
         /\ \A k \in Fetch, b \in Browser : IssuedTo(k, b) => StillIssuedTo(k, b)
<1>0. fetch \in [Fetch -> Exchange] /\ \A f \in Fetch : ExchangeOK(f)
  BY DEF DeployInv, TypeOK
<1>1. Submitted \subseteq Submitted'
  BY DEF Submitted, Grown, DeploymentAssumption, Code
<1>2. ASSUME NEW k \in Fetch, NEW b \in Browser, IssuedTo(k, b) PROVE StillIssuedTo(k, b)
  <2>1. fetch[k].owner # Null /\ fetch[k].phase # "unused"
    BY <1>0, <1>2 DEF IssuedTo, ExchangeOK, Unused, DeploymentAssumption
  <2>2. fetch[k].status # Null
    BY <1>0, <2>1 DEF ExchangeOK
  <2> QED BY <1>2, <2>1, <2>2 DEF Grown, IssuedTo, StillIssuedTo, From
<1> QED BY <1>1, <1>2

\* A step that leaves a fetch alone, but for its phase, keeps what is known of it.
LEMMA UntouchedStaysOK ==
  ASSUME DeploymentAssumption, DeployInv, Grown, TypeOK', NEW f \in Fetch,
         fetch[f].phase = "unused" => fetch'[f] = fetch[f],
         fetch'[f].status = fetch[f].status, fetch'[f].owner = fetch[f].owner
  PROVE  ExchangeOK(f)'
<1>0. ExchangeOK(f) /\ fetch[f] \in Exchange /\ fetch'[f] \in Exchange
  BY DEF DeployInv, TypeOK
<1>1. /\ Submitted \subseteq Submitted'
      /\ \A k \in Fetch, b \in Browser : IssuedTo(k, b) => StillIssuedTo(k, b)
  BY KnowledgeStays
<1>2. CASE fetch[f].phase = "unused"
  <2>1. fetch'[f] = fetch[f] /\ fetch[f] = Unused
    BY <1>0, <1>2 DEF ExchangeOK
  <2> QED BY <2>1 DEF ExchangeOK, Unused, DeploymentAssumption, Code
<1>3. CASE fetch[f].phase # "unused"
  <2>1. /\ fetch'[f].browser = fetch[f].browser /\ fetch'[f].cookie = fetch[f].cookie
        /\ fetch'[f].kind = fetch[f].kind /\ fetch'[f].case = fetch[f].case
        /\ fetch'[f].phase # "unused" /\ fetch[f].browser \in Browser
    BY <1>0, <1>3 DEF Grown, ExchangeOK, From
  <2>2. Owner(f)' = Owner(f) /\ From(f)' = From(f) /\ From(f) \in Browser
    BY <2>1 DEF Owner, From
  <2>3. fetch[f].cookie # Null => StillIssuedTo(fetch[f].cookie, fetch[f].browser)
    <3>1. fetch[f].cookie \in Fetch \cup {Null}
      BY <1>0 DEF Exchange
    <3> QED BY <1>0, <1>1, <2>1, <2>2, <3>1 DEF ExchangeOK, From
  <2> QED BY <1>0, <1>1, <2>1, <2>2, <2>3 DEF ExchangeOK, From, IssuedTo, StillIssuedTo
<1> QED BY <1>2, <1>3

\* Every step keeps what is known of the fetches.
LEMMA ExchangesKept ==
  ASSUME DeploymentAssumption, DeployInv, Next, Grown, TypeOK', NEW g \in Fetch
  PROVE  ExchangeOK(g)'
<1>0. TypeOK /\ ExchangeOK(g) /\ fetch[g] \in Exchange /\ fetch \in [Fetch -> Exchange]
  BY DEF DeployInv, TypeOK
<1>k. /\ Submitted \subseteq Submitted'
      /\ \A k \in Fetch, b \in Browser : IssuedTo(k, b) => StillIssuedTo(k, b)
  BY KnowledgeStays
<1>1. ASSUME NEW b \in Browser, ClearCookies(b) PROVE ExchangeOK(g)'
  BY <1>1, UntouchedStaysOK DEF ClearCookies
<1>2. ASSUME NEW b \in Browser, NEW f \in Fetch, Send(b, f) PROVE ExchangeOK(g)'
  <2>1. PICK kind \in Kind, c \in Fetch \cup {Null} :
          /\ fetch' = [fetch EXCEPT ![f] = Request(b, kind, c)]
          /\ kind # "submit" => c \in Submitted
    BY <1>0, <1>2, SendIsRequest
  <2>2. CASE g # f
    BY <1>0, <2>1, <2>2, UntouchedStaysOK
  <2>3. CASE g = f
    <3>1. fetch'[g] = Request(b, kind, c)
      BY <1>0, <2>1, <2>3
    <3>2. /\ fetch'[g].phase = "sent" /\ fetch'[g].browser = b /\ fetch'[g].kind = kind
          /\ fetch'[g].case = c /\ fetch'[g].cookie = jar[b]
          /\ fetch'[g].owner = Null /\ fetch'[g].status = Null
      BY <3>1 DEF Request, Unused
    <3>3. jar[b] # Null => jar[b] # g /\ IssuedTo(jar[b], b) /\ jar[b] \in Fetch
      <4>1. jar[b] \in Fetch \cup {Null} /\ JarOK(b)
        BY DEF DeployInv, TypeOK
      <4>2. fetch[g] = Unused
        BY <1>0, <1>2, <2>3 DEF Send, ExchangeOK
      <4> QED BY <4>1, <4>2 DEF JarOK, IssuedTo, Unused
    <3>4. jar[b] # Null => StillIssuedTo(jar[b], b)
      BY <1>k, <3>3
    <3> QED BY <1>k, <2>1, <3>2, <3>3, <3>4
            DEF ExchangeOK, From, IssuedTo, StillIssuedTo, DeploymentAssumption, Code
  <2> QED BY <2>2, <2>3
<1>3. ASSUME NEW f \in Fetch, Receive(f) \/ Lose(f) PROVE ExchangeOK(g)'
  <2>1. PICK phase \in {"told", "lost"} :
          fetch[f].phase = "sent" /\ fetch' = [fetch EXCEPT ![f].phase = phase]
    BY <1>3 DEF Receive, Lose, Pending
  <2>2. /\ fetch[g].phase = "unused" => fetch'[g] = fetch[g]
        /\ fetch'[g].status = fetch[g].status /\ fetch'[g].owner = fetch[g].owner
    BY <1>0, <2>1 DEF Exchange
  <2> QED BY <2>2, UntouchedStaysOK
<1>4. ASSUME NEW f \in Fetch, NEW i \in Instance, Serve(i, f) PROVE ExchangeOK(g)'
  <2>1. PICK s \in Code, o \in Fetch \cup {Null} : Handled(i, f, s, o)
    BY <1>4, ServeIsHandled
  <2>2. CASE g # f
    BY <1>0, <2>1, <2>2, UntouchedStaysOK DEF Handled, Replied
  <2>3. CASE g = f
    <3>1. /\ fetch'[g].status = s /\ fetch'[g].owner = o /\ fetch'[g].phase = fetch[g].phase
          /\ fetch'[g].cookie = fetch[g].cookie /\ fetch'[g].browser = fetch[g].browser
          /\ fetch'[g].kind = fetch[g].kind /\ fetch'[g].case = fetch[g].case
      BY <1>0, <2>1, <2>3 DEF Handled, Replied, Exchange
    <3>2. fetch[g].phase # "unused" /\ s # Null
      BY <2>1, <2>3 DEF Handled, Arrived, DeploymentAssumption
    <3>3. Owner(g)' = Owner(g) /\ From(g)' = From(g) /\ From(g) \in Browser
      BY <1>0, <3>1, <3>2 DEF Owner, From, ExchangeOK
    <3>4. s \in {200, 404} => fetch[g].case \in Submitted
      BY <1>0, <2>1, <2>3, <3>2 DEF Handled, Authorized, Looks, ExchangeOK
    <3>5. (o # Null => o = Owner(g)) /\ (s = 201 => o = Owner(g))
      BY <2>1, <2>3 DEF Handled
    <3>6. fetch[g].cookie # Null => StillIssuedTo(fetch[g].cookie, fetch[g].browser)
      <4>1. fetch[g].cookie \in Fetch \cup {Null}
        BY <1>0 DEF Exchange
      <4> QED BY <1>0, <1>k, <3>1, <3>3, <4>1 DEF ExchangeOK, From
    <3> QED BY <1>0, <1>k, <3>1, <3>2, <3>3, <3>4, <3>5, <3>6
            DEF ExchangeOK, From, IssuedTo, StillIssuedTo
  <2> QED BY <2>2, <2>3
<1>5. ASSUME NEW i \in Instance, Replace(i) PROVE ExchangeOK(g)'
  BY <1>5, UntouchedStaysOK DEF Replace
<1> QED BY <1>1, <1>2, <1>3, <1>4, <1>5 DEF Next

-----------------------------------------------------------------------------
\* A change of key stays one.
LEMMA KeyChangeStays ==
  ASSUME envs \subseteq envs', KeyChanged
  PROVE  KeyChanged'
BY DEF KeyChanged

\* A step that leaves a record alone, or removes it, keeps what is known of it.
LEMMA OldRecordStaysOK ==
  ASSUME DeploymentAssumption, DeployInv, Grown, envs \subseteq envs',
         NEW p \in Place, NEW c \in Fetch, records'[p][c] \in {records[p][c], Null}
  PROVE  /\ RecordOK(p, c)'
         /\ records'[p][c] # Null /\ records'[p][c].state = "EXECUTING" => KeyChanged'
<1>1. RecordOK(p, c) /\ StuckOnlyAfterKeyChange
  BY DEF DeployInv, ErrorsAreConfiguration
<1>2. CASE records'[p][c] = Null
  BY <1>2 DEF RecordOK
<1>3. CASE records'[p][c] = records[p][c] /\ records[p][c] # Null
  <2>1. /\ fetch[c].status = 201 /\ records[p][c].owner = fetch[c].owner
        /\ \E e \in envs : records[p][c].key = e.key
    BY <1>1, <1>3 DEF RecordOK
  <2>2. fetch'[c].status = 201 /\ fetch'[c].owner = fetch[c].owner
    BY <2>1 DEF Grown, DeploymentAssumption, Code
  <2>3. records'[p][c].state = "EXECUTING" => KeyChanged'
    BY <1>1, <1>3, KeyChangeStays DEF StuckOnlyAfterKeyChange
  <2> QED BY <1>3, <2>1, <2>2, <2>3 DEF RecordOK
<1> QED BY <1>2, <1>3

\* What a handler saves.
LEMMA SavedRecord ==
  ASSUME DeploymentAssumption, DeployInv, NEW i \in Instance, NEW f \in Fetch,
         NEW s \in Code, NEW o \in Fetch \cup {Null}, Handled(i, f, s, o),
         NEW p \in Place, NEW c \in Fetch, records'[p][c] \notin {records[p][c], Null}
  PROVE  /\ p = PlaceOf(i)
         /\ \/ /\ s = 201 /\ c = f /\ o = Owner(f) /\ records[p][c] = Null
               /\ records'[p][c] = [owner |-> Owner(f), key |-> KeyOf(i),
                                    state |-> "AWAITING_APPROVAL"]
            \/ /\ Authorized(i, f) /\ c = fetch[f].case /\ records[p][c] = Stored(i, f)
               /\ \E state \in CaseState :
                    /\ state = "EXECUTING" => KeyChanged
                    /\ records'[p][c] = [Stored(i, f) EXCEPT !.state = state]
<1>1. records \in [Place -> [Fetch -> Record \cup {Null}]] /\ PlaceOf(i) \in Place
  BY PlaceTyped DEF DeployInv, TypeOK
<1>2. ASSUME NEW d \in Fetch, NEW record, Saved(i, d, record)
      PROVE  p = PlaceOf(i) /\ c = d /\ records'[p][c] = record
  BY <1>1, <1>2 DEF Saved
<1>3. CASE s = 201
  <2>1. /\ o = Owner(f)
        /\ Saved(i, f, [owner |-> Owner(f), key |-> KeyOf(i), state |-> "AWAITING_APPROVAL"])
    BY <1>3 DEF Handled
  <2>2. records[p][f] = Null
    <3>1. fetch[f].status # 201
      BY DEF Handled, Arrived, DeploymentAssumption, Code
    <3> QED BY <3>1 DEF DeployInv, RecordOK
  <2> QED BY <1>2, <1>3, <2>1, <2>2
<1>4. CASE s # 201
  <2>1. /\ Authorized(i, f)
        /\ \E state \in CaseState :
             /\ state = "EXECUTING" => KeyChanged
             /\ Saved(i, fetch[f].case, [Stored(i, f) EXCEPT !.state = state])
    BY <1>4 DEF Handled
  <2>2. fetch[f].case \in Fetch
    BY <2>1 DEF Authorized, Looks, Identified, Arrived, DeployInv, ExchangeOK, Submitted
  <2>3. PICK state \in CaseState :
             /\ state = "EXECUTING" => KeyChanged
             /\ Saved(i, fetch[f].case, [Stored(i, f) EXCEPT !.state = state])
    BY <2>1
  <2>4. /\ p = PlaceOf(i) /\ c = fetch[f].case
        /\ records'[p][c] = [Stored(i, f) EXCEPT !.state = state]
    BY <1>2, <2>2, <2>3
  <2>5. records[p][c] = Stored(i, f)
    BY <2>4 DEF Stored
  <2> QED BY <2>1, <2>3, <2>4, <2>5
<1> QED BY <1>3, <1>4

\* No handler removes a record.
LEMMA HandlersRemoveNothing ==
  ASSUME DeploymentAssumption, DeployInv, NEW i \in Instance, NEW f \in Fetch,
         NEW s \in Code, NEW o \in Fetch \cup {Null}, Handled(i, f, s, o),
         NEW p \in Place, NEW c \in Fetch, records[p][c] # Null
  PROVE  records'[p][c] # Null
<1>1. records \in [Place -> [Fetch -> Record \cup {Null}]] /\ PlaceOf(i) \in Place
  BY PlaceTyped DEF DeployInv, TypeOK
<1>2. ASSUME NEW d \in Fetch, NEW record \in Record, Saved(i, d, record)
      PROVE  records'[p][c] # Null
  BY <1>1, <1>2 DEF Saved, DeploymentAssumption
<1>3. CASE s = 201
  <2>1. [owner |-> Owner(f), key |-> KeyOf(i), state |-> "AWAITING_APPROVAL"] \in Record
    BY <1>3, OwnerTyped DEF Handled, DeployInv, Record, CaseState
  <2> QED BY <1>2, <1>3, <2>1 DEF Handled
<1>4. ASSUME Authorized(i, f), NEW state \in CaseState,
             Saved(i, fetch[f].case, [Stored(i, f) EXCEPT !.state = state])
      PROVE  records'[p][c] # Null
  <2>1. fetch[f].case \in Fetch
    BY <1>4 DEF Authorized, Looks, Identified, Arrived, DeployInv, ExchangeOK, Submitted
  <2>2. Stored(i, f) \in Record
    BY <1>1, <1>4, <2>1 DEF Authorized, Stored
  <2>3. [Stored(i, f) EXCEPT !.state = state] \in Record
    BY <2>2 DEF Record
  <2> QED BY <1>2, <1>4, <2>1, <2>3
<1>5. \/ s = 201 \/ UNCHANGED records
      \/ /\ Authorized(i, f)
         /\ \E state \in CaseState :
              Saved(i, fetch[f].case, [Stored(i, f) EXCEPT !.state = state])
  BY DEF Handled
<1> QED BY <1>3, <1>4, <1>5

\* Every step keeps what is known of the records.
LEMMA RecordsKept ==
  ASSUME DeploymentAssumption, DeployInv, Next, Grown, envs \subseteq envs', TypeOK'
  PROVE  (\A p \in Place, c \in Fetch : RecordOK(p, c))' /\ StuckOnlyAfterKeyChange'
<1> SUFFICES ASSUME NEW p \in Place, NEW c \in Fetch
             PROVE  /\ RecordOK(p, c)'
                    /\ records'[p][c] # Null /\ records'[p][c].state = "EXECUTING" => KeyChanged'
  BY DEF StuckOnlyAfterKeyChange, Place
<1>1. CASE records'[p][c] \in {records[p][c], Null}
  BY <1>1, OldRecordStaysOK
<1>2. CASE records'[p][c] \notin {records[p][c], Null}
  <2>1. \E f \in Fetch, i \in Instance : Serve(i, f)
    <3>1. ASSUME NEW i \in Instance, Replace(i) PROVE FALSE
      BY <1>2, <3>1 DEF Replace, Empty, DeployInv, TypeOK
    <3>2. ~OfBrowser
      BY <1>2, BrowsersLeaveHost
    <3> QED BY <3>1, <3>2 DEF Next, OfBrowser
  <2>2. PICK f \in Fetch, i \in Instance : Serve(i, f)
    BY <2>1
  <2>3. PICK s \in Code, o \in Fetch \cup {Null} : Handled(i, f, s, o)
    BY <2>2, ServeIsHandled
  <2>4. fetch'[f].status = s /\ fetch'[f].owner = o /\ envs' = envs /\ fetch \in [Fetch -> Exchange]
    BY <2>3 DEF Handled, Replied, DeployInv, TypeOK, Exchange
  <2>5. CASE /\ s = 201 /\ c = f /\ o = Owner(f)
             /\ records'[p][c] = [owner |-> Owner(f), key |-> KeyOf(i),
                                  state |-> "AWAITING_APPROVAL"]
    <3>1. instance[i] \in envs
      BY DEF DeployInv, EnvsKnown
    <3> QED BY <2>4, <2>5, <3>1 DEF RecordOK, KeyOf
  <2>6. ASSUME Authorized(i, f), c = fetch[f].case, records[p][c] = Stored(i, f),
               NEW state \in CaseState, state = "EXECUTING" => KeyChanged,
               records'[p][c] = [Stored(i, f) EXCEPT !.state = state]
        PROVE  /\ RecordOK(p, c)'
               /\ records'[p][c].state = "EXECUTING" => KeyChanged'
    <3>1. Stored(i, f) \in Record /\ RecordOK(p, c) /\ records[p][c] # Null
      BY <2>6 DEF DeployInv, TypeOK, Authorized
    <3>2. /\ records'[p][c].owner = records[p][c].owner /\ records'[p][c].key = records[p][c].key
          /\ records'[p][c].state = state
      BY <2>6, <3>1 DEF Record
    <3>3. fetch'[c].status = 201 /\ fetch'[c].owner = fetch[c].owner
      BY <3>1 DEF RecordOK, Grown, DeploymentAssumption, Code
    <3>4. state = "EXECUTING" => KeyChanged'
      BY <2>6, KeyChangeStays
    <3> QED BY <2>4, <3>1, <3>2, <3>3, <3>4 DEF RecordOK
  <2>7. \/ /\ s = 201 /\ c = f /\ o = Owner(f) /\ records[p][c] = Null
           /\ records'[p][c] = [owner |-> Owner(f), key |-> KeyOf(i),
                                state |-> "AWAITING_APPROVAL"]
        \/ /\ Authorized(i, f) /\ c = fetch[f].case /\ records[p][c] = Stored(i, f)
           /\ \E state \in CaseState :
                /\ state = "EXECUTING" => KeyChanged
                /\ records'[p][c] = [Stored(i, f) EXCEPT !.state = state]
    BY <1>2, <2>3, SavedRecord
  <2> QED BY <2>5, <2>6, <2>7
<1> QED BY <1>1, <1>2

-----------------------------------------------------------------------------
\* What JarOK says of one fetch f of the browser b.
JarFits(b, f) ==
  /\ jar[b] = Null =>
       /\ fetch[f].cookie = Null
       /\ fetch[f].phase = "told" => fetch[f].owner = Null
       /\ \A g \in Cookieless(b) : Pending(f) => f = g
  /\ jar[b] # Null =>
       /\ Pending(f) => fetch[f].cookie = jar[b]
       /\ fetch[f].phase = "told" => fetch[f].owner \in {jar[b], Null}

\* A step that leaves a browser's cookie alone and adds nothing to what is
\* under way keeps what is known of it.
LEMMA UndisturbedJar ==
  ASSUME DeploymentAssumption, DeployInv, Grown, TypeOK', NEW b \in Browser,
         jar'[b] = jar[b], cleared \cup raced \subseteq cleared' \cup raced',
         \A f \in Fetch :
           /\ fetch'[f].browser = fetch[f].browser /\ fetch'[f].cookie = fetch[f].cookie
           /\ fetch'[f].phase = "sent" => fetch[f].phase = "sent"
           /\ fetch'[f].phase = "told" /\ fetch[f].browser = b =>
                \/ fetch[f].phase = "told" /\ fetch'[f].owner = fetch[f].owner
                \/ fetch'[f].owner \in {jar[b], Null}
  PROVE  JarOK(b)'
<1>0. JarOK(b) /\ jar[b] \in Fetch \cup {Null} /\ \A f \in Fetch : ExchangeOK(f)
  BY DEF DeployInv, TypeOK
<1>1. jar'[b] # Null => StillIssuedTo(jar'[b], b)
  BY <1>0, KnowledgeStays DEF JarOK
<1>2. ASSUME b \notin cleared' \cup raced', NEW f \in Fetch, fetch'[f].browser = b
      PROVE  JarFits(b, f)'
  <2>1. JarFits(b, f)
    BY <1>0, <1>2 DEF JarOK, JarFits, From
  <2> QED BY <1>2, <2>1 DEF JarFits, Cookieless, Pending
<1> QED BY <1>1, <1>2 DEF JarOK, JarFits, From, IssuedTo, StillIssuedTo

\* A browser's cookie is that of its fetches, whoever's answers are late.
LEMMA JarsKept ==
  ASSUME DeploymentAssumption, DeployInv, Next, Grown, TypeOK', NEW b \in Browser
  PROVE  JarOK(b)'
<1>0. /\ fetch \in [Fetch -> Exchange] /\ jar \in [Browser -> Fetch \cup {Null}] /\ JarOK(b)
      /\ \A f \in Fetch : ExchangeOK(f)
  BY DEF DeployInv, TypeOK
<1>1. ASSUME NEW d \in Browser, ClearCookies(d) PROVE JarOK(b)'
  <2>1. CASE d = b
    <3>1. jar'[b] = Null /\ b \in cleared'
      BY <1>0, <1>1, <2>1 DEF ClearCookies
    <3> QED BY <3>1 DEF JarOK
  <2>2. CASE d # b
    <3>1. jar'[b] = jar[b] /\ cleared \subseteq cleared' /\ raced' = raced /\ fetch' = fetch
      BY <1>0, <1>1, <2>2 DEF ClearCookies
    <3> QED BY <3>1, UndisturbedJar
  <2> QED BY <2>1, <2>2
<1>2. ASSUME NEW d \in Browser, NEW f \in Fetch, Send(d, f) PROVE JarOK(b)'
  <2>1. PICK kind \in Kind, c \in Fetch \cup {Null} :
         fetch' = [fetch EXCEPT ![f] = Request(d, kind, c)]
    BY <1>2, SendIsRequest DEF DeployInv
  <2>2. /\ fetch'[f].browser = d /\ fetch'[f].cookie = jar[d] /\ fetch'[f].phase = "sent"
        /\ fetch'[f].owner = Null
    BY <1>0, <2>1 DEF Request, Unused
  <2>3. \A g \in Fetch : g # f => fetch'[g] = fetch[g]
    BY <2>1, <1>0
  <2>4. /\ jar' = jar /\ cleared' = cleared /\ raced \subseteq raced'
        /\ fetch[f].phase = "unused"
        /\ jar[d] = Null /\ Cookieless(d) # {} => d \in raced'
    BY <1>2 DEF Send
  <2>5. fetch[f].browser = Null
    BY <1>0, <2>4 DEF ExchangeOK, Unused
  <2>6. jar'[b] # Null => StillIssuedTo(jar'[b], b)
    BY <1>0, <2>4, KnowledgeStays DEF JarOK
  <2>7. ASSUME b \notin cleared' \cup raced', NEW g \in Fetch, fetch'[g].browser = b
        PROVE  JarFits(b, g)'
    <3>1. ASSUME NEW h \in Fetch, h # f, fetch[h].browser = b PROVE JarFits(b, h)
      BY <1>0, <2>4, <2>7, <3>1 DEF JarOK, JarFits, From
    <3>2. CASE d # b
      <4>1. g # f
        BY <2>2, <2>7, <3>2
      <4>2. JarFits(b, g) /\ fetch'[g] = fetch[g]
        BY <2>3, <2>7, <3>1, <4>1
      <4>3. \A h \in Cookieless(b)' : h \in Cookieless(b)
        BY <2>2, <2>3, <3>2 DEF Cookieless, Pending
      <4> QED BY <2>4, <4>2, <4>3 DEF JarFits, Pending
    <3>3. CASE d = b /\ jar[b] # Null
      BY <2>2, <2>3, <2>4, <2>7, <3>1, <3>3 DEF JarFits, Pending
    <3>4. CASE d = b /\ jar[b] = Null
      <4>1. Cookieless(b) = {}
        BY <2>4, <2>7, <3>4
      <4>2. \A h \in Fetch : h # f /\ fetch[h].browser = b => ~Pending(h)
        BY <3>1, <3>4, <4>1 DEF JarFits, Cookieless
      <4>3. \A h \in Cookieless(b)' : h = f
        BY <2>3, <4>2 DEF Cookieless, Pending
      <4>4. Pending(g)' => g = f
        BY <2>3, <2>7, <4>2 DEF Pending
      <4>5. fetch'[g].cookie = Null /\ (fetch'[g].phase = "told" => fetch'[g].owner = Null)
        BY <2>2, <2>3, <2>7, <3>1, <3>4 DEF JarFits
      <4> QED BY <2>4, <3>4, <4>3, <4>4, <4>5 DEF JarFits
    <3> QED BY <3>2, <3>3, <3>4
  <2> QED BY <2>6, <2>7 DEF JarOK, JarFits, From, IssuedTo, StillIssuedTo
<1>3. ASSUME NEW f \in Fetch, Receive(f) PROVE JarOK(b)'
  <2>1. /\ fetch[f].phase = "sent" /\ fetch[f].status # Null
        /\ fetch' = [fetch EXCEPT ![f].phase = "told"]
        /\ jar' = IF fetch[f].owner = f THEN [jar EXCEPT ![fetch[f].browser] = f] ELSE jar
        /\ cleared' = cleared /\ raced' = raced
    BY <1>3 DEF Receive, Pending
  <2>2. /\ \A g \in Fetch : g # f => fetch'[g] = fetch[g]
        /\ fetch'[f].phase = "told" /\ fetch'[f].browser = fetch[f].browser
        /\ fetch'[f].cookie = fetch[f].cookie /\ fetch'[f].owner = fetch[f].owner
        /\ fetch[f].browser \in Browser
    BY <1>0, <2>1 DEF Exchange, ExchangeOK, From
  <2>3. CASE fetch[f].browser # b
    <3>1. jar'[b] = jar[b]
      BY <1>0, <2>1, <2>3
    <3> QED BY <2>1, <2>2, <2>3, <3>1, UndisturbedJar
  <2>4. CASE fetch[f].browser = b /\ fetch[f].owner # f
    <3>1. jar'[b] = jar[b]
      BY <2>1, <2>4
    <3>2. CASE b \in cleared \cup raced
      <4>1. jar'[b] # Null => StillIssuedTo(jar'[b], b)
        BY <1>0, <3>1, KnowledgeStays DEF JarOK
      <4> QED BY <2>1, <3>2, <4>1 DEF JarOK, IssuedTo, StillIssuedTo, From
    <3>3. CASE b \notin cleared \cup raced
      <4>1. fetch[f].owner # Null => fetch[f].cookie # Null /\ fetch[f].owner = fetch[f].cookie
        BY <1>0, <2>4 DEF ExchangeOK, Owner
      <4>2. jar[b] = Null => fetch[f].cookie = Null
        BY <1>0, <2>4, <3>3 DEF JarOK, From
      <4>3. jar[b] # Null => fetch[f].cookie = jar[b]
        BY <1>0, <2>1, <2>4, <3>3 DEF JarOK, From, Pending
      <4>4. fetch[f].owner \in {jar[b], Null}
        BY <4>1, <4>2, <4>3
      <4> QED BY <2>1, <2>2, <3>1, <4>4, UndisturbedJar
    <3> QED BY <3>2, <3>3
  <2>5. CASE fetch[f].browser = b /\ fetch[f].owner = f
    <3>1. jar'[b] = f /\ f # Null
      BY <1>0, <2>1, <2>5 DEF DeploymentAssumption
    <3>2. StillIssuedTo(jar'[b], b)
      BY <2>2, <2>5, <3>1 DEF StillIssuedTo
    <3>3. fetch[f].cookie = Null
      BY <1>0, <2>5, <3>1 DEF ExchangeOK, Owner
    <3>4. ASSUME b \notin cleared \cup raced, NEW g \in Fetch, fetch'[g].browser = b
          PROVE  JarFits(b, g)'
      <4>1. f \in Cookieless(b) /\ Pending(f)
        BY <2>1, <2>5, <3>3 DEF Cookieless, Pending
      <4>2. jar[b] = Null
        BY <1>0, <2>5, <3>3, <3>4, <4>1 DEF JarOK, From
      <4>3. fetch[g].browser = b
        BY <2>2, <2>5, <3>4
      <4>4. /\ Pending(g) => g = f
            /\ fetch[g].phase = "told" => fetch[g].owner = Null
        BY <1>0, <3>4, <4>1, <4>2, <4>3 DEF JarOK, From
      <4>5. ~Pending(g)' /\ (fetch'[g].phase = "told" => fetch'[g].owner \in {jar'[b], Null})
        BY <2>2, <2>5, <3>1, <4>4 DEF Pending
      <4> QED BY <3>1, <4>5 DEF JarFits
    <3> QED BY <2>1, <3>2, <3>4 DEF JarOK, JarFits, From, IssuedTo, StillIssuedTo
  <2> QED BY <2>3, <2>4, <2>5
<1>4. ASSUME NEW f \in Fetch, Lose(f) PROVE JarOK(b)'
  <2>1. /\ fetch' = [fetch EXCEPT ![f].phase = "lost"]
        /\ jar' = jar /\ cleared' = cleared /\ raced' = raced
    BY <1>4 DEF Lose
  <2>2. /\ \A g \in Fetch : g # f => fetch'[g] = fetch[g]
        /\ fetch'[f].phase = "lost" /\ fetch'[f].browser = fetch[f].browser
        /\ fetch'[f].cookie = fetch[f].cookie
    BY <1>0, <2>1 DEF Exchange
  <2> QED BY <2>1, <2>2, UndisturbedJar
<1>5. ASSUME NEW f \in Fetch, NEW i \in Instance, Serve(i, f) PROVE JarOK(b)'
  <2>1. PICK s \in Code, o \in Fetch \cup {Null} : Handled(i, f, s, o)
    BY <1>5, ServeIsHandled
  <2>2. /\ \A g \in Fetch : g # f => fetch'[g] = fetch[g]
        /\ fetch'[f].phase = fetch[f].phase /\ fetch'[f].browser = fetch[f].browser
        /\ fetch'[f].cookie = fetch[f].cookie
    BY <1>0, <2>1 DEF Handled, Replied, Exchange
  <2>3. /\ jar' = jar /\ cleared' = cleared /\ raced' = raced
        /\ fetch[f].phase \in {"sent", "lost"}
    BY <2>1 DEF Handled, Replied, Arrived
  <2> QED BY <2>2, <2>3, UndisturbedJar
<1>6. ASSUME NEW i \in Instance, Replace(i) PROVE JarOK(b)'
  <2>1. fetch' = fetch /\ jar' = jar /\ cleared' = cleared /\ raced' = raced
    BY <1>6 DEF Replace
  <2> QED BY <2>1, UndisturbedJar
<1> QED BY <1>1, <1>2, <1>3, <1>4, <1>5, <1>6 DEF Next

-----------------------------------------------------------------------------
\* Where every instance keeps its cases, each of them does.
LEMMA AlwaysThere ==
  ASSUME DeployInv, NEW p \in {"redis", "disk"}, AlwaysAt(p), NEW i \in Instance
  PROVE  PlaceOf(i) = p
<1>1. instance[i] \in envs
  BY DEF DeployInv, EnvsKnown
<1>2. CASE p = "redis"
  BY <1>1, <1>2 DEF AlwaysAt, PlaceOf, KvConfigured
<1>3. CASE p = "disk"
  BY <1>1, <1>3 DEF AlwaysAt, PlaceOf, KvConfigured
<1> QED BY <1>2, <1>3

\* What is kept where every instance keeps its cases is not lost.
LEMMA CasesKept ==
  ASSUME DeploymentAssumption, DeployInv, Next, envs \subseteq envs', TypeOK',
         NEW p \in {"redis", "disk"}
  PROVE  KeptAt(p)'
<1>0. /\ fetch \in [Fetch -> Exchange] /\ KeptAt(p) /\ p \in Place /\ Instance \subseteq Place
      /\ records \in [Place -> [Fetch -> Record \cup {Null}]]
  BY DEF DeployInv, TypeOK, Place
<1> SUFFICES ASSUME AlwaysAt(p)', NEW c \in Fetch, fetch'[c].status = 201
             PROVE  records'[p][c] # Null
  BY DEF KeptAt, Submitted
<1>1. AlwaysAt(p)
  BY DEF AlwaysAt, KvConfigured
<1>2. fetch[c].status = 201 => records[p][c] # Null
  BY <1>0, <1>1 DEF KeptAt, Submitted
<1>3. CASE OfBrowser
  <2>1. records' = records
    BY <1>3, BrowsersLeaveHost
  <2>2. ASSUME NEW f \in Fetch, Receive(f) \/ Lose(f) PROVE fetch[c].status = 201
    BY <1>0, <2>2 DEF Receive, Lose, Exchange
  <2>3. ASSUME NEW b \in Browser, ClearCookies(b) PROVE fetch[c].status = 201
    BY <2>3 DEF ClearCookies
  <2>4. ASSUME NEW b \in Browser, NEW f \in Fetch, Send(b, f) PROVE fetch[c].status = 201
    <3>1. PICK kind \in Kind, d \in Fetch \cup {Null} :
           fetch' = [fetch EXCEPT ![f] = Request(b, kind, d)]
      BY <2>4, SendIsRequest DEF DeployInv
    <3>2. Request(b, kind, d).status = Null
      BY DEF Request, Unused
    <3> QED BY <1>0, <3>1, <3>2 DEF DeploymentAssumption, Code
  <2> QED BY <1>2, <1>3, <2>1, <2>2, <2>3, <2>4 DEF OfBrowser
<1>4. ASSUME NEW f \in Fetch, NEW i \in Instance, Serve(i, f) PROVE records'[p][c] # Null
  <2>1. PICK s \in Code, o \in Fetch \cup {Null} : Handled(i, f, s, o)
    BY <1>4, ServeIsHandled
  <2>2. CASE fetch[c].status = 201
    BY <1>0, <1>2, <2>1, <2>2, HandlersRemoveNothing
  <2>3. CASE fetch[c].status # 201
    <3>1. c = f /\ s = 201
      BY <1>0, <2>1, <2>3 DEF Handled, Replied, Exchange
    <3>2. PlaceOf(i) = p
      BY <1>1, AlwaysThere
    <3>3. [owner |-> Owner(f), key |-> KeyOf(i), state |-> "AWAITING_APPROVAL"] \in Record
      BY <2>1, <3>1, OwnerTyped DEF Handled, DeployInv, Record, CaseState
    <3>4. Saved(i, f, [owner |-> Owner(f), key |-> KeyOf(i), state |-> "AWAITING_APPROVAL"])
      BY <2>1, <3>1 DEF Handled
    <3> QED BY <1>0, <3>1, <3>2, <3>3, <3>4 DEF Saved, DeploymentAssumption
  <2> QED BY <2>2, <2>3
<1>5. ASSUME NEW i \in Instance, Replace(i) PROVE records'[p][c] # Null
  <2>1. i # p
    BY DEF DeploymentAssumption
  <2> QED BY <1>0, <1>2, <1>5, <2>1 DEF Replace
<1> QED BY <1>3, <1>4, <1>5 DEF Next, OfBrowser

-----------------------------------------------------------------------------
\* An answer to f that is new is no more than its handler may give.
LEMMA NewAnswer ==
  ASSUME DeploymentAssumption, DeployInv, Next, NEW f \in Fetch,
         fetch'[f].status # fetch[f].status
  PROVE  \E i \in Instance : \E s \in Code, o \in Fetch \cup {Null} :
           Handled(i, f, s, o) /\ fetch'[f].status = s /\ fetch'[f].owner = o
<1>0. fetch \in [Fetch -> Exchange] /\ ExchangeOK(f)
  BY DEF DeployInv, TypeOK
<1>1. ASSUME NEW b \in Browser, ClearCookies(b) PROVE FALSE
  BY <1>1 DEF ClearCookies
<1>2. ASSUME NEW b \in Browser, NEW g \in Fetch, Send(b, g) PROVE FALSE
  <2>1. PICK kind \in Kind, d \in Fetch \cup {Null} :
         fetch' = [fetch EXCEPT ![g] = Request(b, kind, d)]
    BY <1>2, SendIsRequest DEF DeployInv
  <2>2. Request(b, kind, d).status = Null
    BY DEF Request, Unused
  <2>3. fetch[g].phase = "unused"
    BY <1>2 DEF Send
  <2> QED BY <1>0, <2>1, <2>2, <2>3 DEF ExchangeOK, Unused
<1>3. ASSUME NEW g \in Fetch, Receive(g) \/ Lose(g) PROVE FALSE
  <2>1. \E phase \in {"told", "lost"} : fetch' = [fetch EXCEPT ![g].phase = phase]
    BY <1>3 DEF Receive, Lose
  <2> QED BY <1>0, <2>1 DEF Exchange
<1>4. ASSUME NEW i \in Instance, Replace(i) PROVE FALSE
  BY <1>4 DEF Replace
<1>5. PICK g \in Fetch, i \in Instance : Serve(i, g)
  BY <1>1, <1>2, <1>3, <1>4 DEF Next
<1>6. PICK s \in Code, o \in Fetch \cup {Null} : Handled(i, g, s, o)
  BY <1>5, ServeIsHandled
<1>7. f = g /\ fetch'[f].status = s /\ fetch'[f].owner = o
  BY <1>0, <1>6 DEF Handled, Replied, Exchange
<1> QED BY <1>6, <1>7

\* A fetch that was answered keeps its answer, and what it was about.
LEMMA OldAnswer ==
  ASSUME DeploymentAssumption, DeployInv, Grown, NEW f \in Fetch, fetch[f].status # Null
  PROVE  /\ fetch'[f].status = fetch[f].status /\ fetch'[f].owner = fetch[f].owner
         /\ fetch'[f].browser = fetch[f].browser /\ fetch'[f].cookie = fetch[f].cookie
         /\ fetch'[f].kind = fetch[f].kind /\ fetch'[f].case = fetch[f].case
<1>1. ExchangeOK(f)
  BY DEF DeployInv
<1>2. fetch[f].phase # "unused"
  BY <1>1 DEF ExchangeOK, Unused
<1> QED BY <1>2 DEF Grown

\* Cases whose records agree in their owner come from the same browser.
LEMMA OwnersBrowser ==
  ASSUME DeploymentAssumption, DeployInv, NEW f \in Fetch, fetch[f].phase # "unused"
  PROVE  From(Owner(f)) = From(f)
<1>1. ExchangeOK(f)
  BY DEF DeployInv
<1> QED BY <1>1 DEF ExchangeOK, Owner, IssuedTo

\* Whoever is authorized sent the case.
LEMMA AuthorizedIsFrom ==
  ASSUME DeploymentAssumption, DeployInv, NEW i \in Instance, NEW f \in Fetch, Authorized(i, f)
  PROVE  /\ fetch[f].case \in Submitted
         /\ From(fetch[f].case) = From(f)
<1>0. ExchangeOK(f) /\ PlaceOf(i) \in Place
  BY PlaceTyped DEF DeployInv
<1>1. fetch[f].phase # "unused" /\ fetch[f].case \in Submitted
  BY <1>0 DEF Authorized, Looks, Identified, Arrived, ExchangeOK
<1>2. fetch[f].case \in Fetch /\ fetch[fetch[f].case].status = 201
  BY <1>1 DEF Submitted
<1>3. RecordOK(PlaceOf(i), fetch[f].case) /\ ExchangeOK(fetch[f].case)
  BY <1>0, <1>2 DEF DeployInv
<1>4. Owner(f) = Owner(fetch[f].case)
  BY <1>2, <1>3 DEF Authorized, Stored, RecordOK, ExchangeOK
<1>5. fetch[fetch[f].case].phase # "unused"
  BY <1>2, <1>3 DEF ExchangeOK, Unused, DeploymentAssumption, Code
<1> QED BY <1>1, <1>2, <1>4, <1>5, OwnersBrowser

\* A browser is shown only its own cases.
LEMMA OwnCasesKept ==
  ASSUME DeploymentAssumption, DeployInv, Next, Grown, TypeOK'
  PROVE  OnlyOwnCases'
<1> SUFFICES ASSUME NEW f \in Fetch, fetch'[f].status = 200
             PROVE  fetch'[fetch'[f].case].browser = fetch'[f].browser
  BY DEF OnlyOwnCases, From
<1>1. fetch[f].status \in {Null, 200}
  BY DEF Grown
<1>2. /\ fetch[f].case \in Submitted /\ From(fetch[f].case) = From(f)
      /\ fetch'[f].browser = fetch[f].browser /\ fetch'[f].case = fetch[f].case
  <2>1. CASE fetch[f].status = 200
    <3>1. ExchangeOK(f)
      BY DEF DeployInv
    <3> QED
      BY <2>1, <3>1, OldAnswer
         DEF DeployInv, OnlyOwnCases, ExchangeOK, DeploymentAssumption, Code
  <2>2. CASE fetch[f].status = Null
    <3>1. Null # 200
      BY DEF DeploymentAssumption, Code
    <3>2. PICK i \in Instance : \E s \in Code, o \in Fetch \cup {Null} :
             Handled(i, f, s, o) /\ fetch'[f].status = s
      BY <2>2, <3>1, NewAnswer
    <3>3. Authorized(i, f) /\ fetch[f].phase # "unused"
      BY <3>2 DEF Handled, Arrived
    <3> QED BY <3>3, AuthorizedIsFrom DEF Grown
  <2> QED BY <1>1, <2>1, <2>2
<1>3. fetch[f].case \in Fetch /\ fetch[fetch[f].case].status # Null
  BY <1>2 DEF Submitted, DeploymentAssumption, Code
<1> QED BY <1>2, <1>3, OldAnswer DEF From

\* A case that is not found is not the asker's, where cases are kept.
LEMMA FoundKept ==
  ASSUME DeploymentAssumption, DeployInv, Next, Grown, envs \subseteq envs', TypeOK'
  PROVE  CasesAreFound'
<1> SUFFICES ASSUME NEW p \in {"redis", "disk"}, AlwaysAt(p)', NEW f \in Fetch,
                    fetch'[f].status = 404
             PROVE  fetch'[f].owner # fetch'[fetch'[f].case].owner
  BY DEF CasesAreFound, AlwaysAt
<1>0. AlwaysAt(p)
  BY DEF AlwaysAt, KvConfigured
<1>1. fetch[f].status \in {Null, 404}
  BY DEF Grown
<1>2. CASE fetch[f].status = 404
  <2>1. ExchangeOK(f)
    BY DEF DeployInv
  <2>2. fetch[f].case \in Fetch /\ fetch[fetch[f].case].status # Null
    BY <1>2, <2>1 DEF ExchangeOK, Submitted, DeploymentAssumption, Code
  <2>3. fetch[f].owner # fetch[fetch[f].case].owner
    BY <1>0, <1>2 DEF DeployInv, CasesAreFound, AlwaysAt
  <2> QED BY <1>2, <2>2, <2>3, OldAnswer DEF DeploymentAssumption, Code
<1>3. CASE fetch[f].status = Null
  <2>1. Null # 404
    BY DEF DeploymentAssumption, Code
  <2>2. PICK i \in Instance, o \in Fetch \cup {Null} :
          Handled(i, f, 404, o) /\ fetch'[f].owner = o
    BY <1>3, <2>1, NewAnswer
  <2>3. ExchangeOK(f) /\ fetch[f].phase # "unused" /\ fetch[f].kind # "submit"
    BY <2>2 DEF Handled, Looks, Arrived, DeployInv
  <2>4. fetch[f].case \in Submitted /\ fetch'[f].case = fetch[f].case
    BY <2>3 DEF ExchangeOK, Grown
  <2>5. fetch[f].case \in Fetch /\ fetch[fetch[f].case].status = 201
    BY <2>4 DEF Submitted
  <2>6. PlaceOf(i) = p
    BY <1>0, AlwaysThere
  <2>7. Stored(i, f) # Null /\ Stored(i, f).owner = fetch[fetch[f].case].owner
    <3>1. records[p][fetch[f].case] # Null
      BY <1>0, <2>4 DEF DeployInv, KeptAt
    <3>2. RecordOK(p, fetch[f].case)
      BY <2>5 DEF DeployInv, Place
    <3> QED BY <2>6, <3>1, <3>2 DEF Stored, RecordOK
  <2>8. o # Stored(i, f).owner
    BY <2>2, <2>7 DEF Handled
  <2>9. fetch'[fetch[f].case].owner = fetch[fetch[f].case].owner
    BY <2>5, OldAnswer DEF DeploymentAssumption, Code
  <2> QED BY <2>2, <2>4, <2>7, <2>8, <2>9
<1> QED BY <1>1, <1>2, <1>3

\* An error is a configuration's, or one of the two that are not.
LEMMA ErrorsKept ==
  ASSUME DeploymentAssumption, DeployInv, Next, Grown, envs \subseteq envs', TypeOK',
         StuckOnlyAfterKeyChange'
  PROVE  ErrorsAreConfiguration'
<1> SUFFICES ASSUME \A e \in envs' : Usable(e), ~KeyChanged', NEW f \in Fetch,
                    fetch'[f].status = 500
             PROVE  \/ fetch'[f].kind = "verify"
                    \/ fetch'[f].kind = "page" /\ fetch'[f].cookie = Null
  BY DEF ErrorsAreConfiguration, Usable, KvConfigured
<1>0. (\A e \in envs : Usable(e)) /\ ~KeyChanged
  BY KeyChangeStays
<1>1. fetch[f].status \in {Null, 500}
  BY DEF Grown
<1>2. CASE fetch[f].status = 500
  BY <1>0, <1>2, OldAnswer DEF DeployInv, ErrorsAreConfiguration, DeploymentAssumption, Code
<1>3. CASE fetch[f].status = Null
  <2>1. Null # 500
    BY DEF DeploymentAssumption, Code
  <2>2. PICK i \in Instance, o \in Fetch \cup {Null} : Handled(i, f, 500, o)
    BY <1>3, <2>1, NewAnswer
  <2>3. Usable(instance[i])
    BY <1>0 DEF DeployInv, EnvsKnown
  <2>4. fetch[f].kind = "verify" \/ (fetch[f].kind = "page" /\ fetch[f].cookie = Null)
    BY <1>0, <2>2, <2>3 DEF Handled
  <2>5. fetch[f].phase # "unused"
    BY <2>2 DEF Handled, Arrived
  <2> QED BY <2>4, <2>5 DEF Grown
<1> QED BY <1>1, <1>2, <1>3

-----------------------------------------------------------------------------
\* Every step keeps the invariant.
LEMMA StepKeepsInv ==
  ASSUME DeploymentAssumption, DeployInv, [Next]_vars
  PROVE  DeployInv'
<1>1. CASE UNCHANGED vars
  <2>1. /\ UNCHANGED <<env, instance, records, jar, fetch, envs, cleared, raced>>
        /\ TypeOK /\ EnvsKnown /\ OnlyOwnCases /\ CasesAreFound /\ ErrorsAreConfiguration
        /\ KeptAt("redis") /\ KeptAt("disk")
        /\ \A f \in Fetch : ExchangeOK(f)
        /\ \A p \in Place, c \in Fetch : RecordOK(p, c)
        /\ \A b \in Browser : JarOK(b)
    BY <1>1 DEF vars, DeployInv
  <2>2. TypeOK' /\ EnvsKnown'
    BY <2>1 DEF TypeOK, EnvsKnown
  <2>3. (\A f \in Fetch : ExchangeOK(f))'
    BY <2>1 DEF ExchangeOK, From, Owner, IssuedTo, Submitted
  <2>4. (\A p \in Place, c \in Fetch : RecordOK(p, c))'
    BY <2>1 DEF RecordOK
  <2>5. (\A b \in Browser : JarOK(b))'
    BY <2>1 DEF JarOK, From, IssuedTo, Cookieless, Pending
  <2>6. KeptAt("redis")' /\ KeptAt("disk")'
    BY <2>1 DEF KeptAt, AlwaysAt, Submitted
  <2>7. OnlyOwnCases' /\ CasesAreFound'
    BY <2>1 DEF OnlyOwnCases, CasesAreFound, From
  <2>8. ErrorsAreConfiguration'
    BY <2>1 DEF ErrorsAreConfiguration, StuckOnlyAfterKeyChange, KeyChanged
  <2> QED BY <2>2, <2>3, <2>4, <2>5, <2>6, <2>7, <2>8 DEF DeployInv
<1>2. CASE Next
  <2>1. TypeOK' /\ Grown /\ envs \subseteq envs'
    BY <1>2, TypeKept, Growth
  <2>2. EnvsKnown' /\ (\A f \in Fetch : ExchangeOK(f))' /\ (\A b \in Browser : JarOK(b))'
    BY <1>2, <2>1, EnvsKept, ExchangesKept, JarsKept
  <2>3. (\A p \in Place, c \in Fetch : RecordOK(p, c))' /\ StuckOnlyAfterKeyChange'
    BY <1>2, <2>1, RecordsKept
  <2>4. KeptAt("redis")' /\ KeptAt("disk")'
    BY <1>2, <2>1, CasesKept
  <2>5. OnlyOwnCases' /\ CasesAreFound' /\ ErrorsAreConfiguration'
    BY <1>2, <2>1, <2>3, OwnCasesKept, FoundKept, ErrorsKept
  <2> QED BY <2>1, <2>2, <2>3, <2>4, <2>5 DEF DeployInv
<1> QED BY <1>1, <1>2

\* The invariant holds at the start.
LEMMA InitHasInv ==
  ASSUME DeploymentAssumption, Init
  PROVE  DeployInv
<1> USE DEF Init, Unused, Empty
<1>1. TypeOK /\ EnvsKnown
  <2>1. Unused \in Exchange
    BY DEF Exchange, Kind
  <2> QED BY <2>1 DEF TypeOK, EnvsKnown
<1>2. \A f \in Fetch : ExchangeOK(f)
  BY DEF ExchangeOK, DeploymentAssumption, Code
<1>3. \A p \in Place, c \in Fetch : RecordOK(p, c)
  BY DEF RecordOK
<1>4. \A b \in Browser : JarOK(b)
  BY DEF JarOK, From, Pending, DeploymentAssumption
<1>5. KeptAt("redis") /\ KeptAt("disk") /\ OnlyOwnCases /\ CasesAreFound
  BY DEF KeptAt, Submitted, OnlyOwnCases, CasesAreFound, DeploymentAssumption, Code
<1>6. ErrorsAreConfiguration
  BY DEF ErrorsAreConfiguration, StuckOnlyAfterKeyChange, DeploymentAssumption, Code
<1> QED BY <1>1, <1>2, <1>3, <1>4, <1>5, <1>6 DEF DeployInv

\* The invariant holds in every behaviour.
LEMMA DeploymentInvariance == Spec => []DeployInv
<1>1. Init => DeployInv
  BY InitHasInv, DeploymentAssumption
<1>2. DeployInv /\ [Next]_vars => DeployInv'
  BY StepKeepsInv, DeploymentAssumption
<1> QED BY <1>1, <1>2, PTL DEF Spec

-----------------------------------------------------------------------------
\* A browser is shown, and moves, only what it submitted, for any number of
\* browsers, fetches and instances, and any loss, clearing and change.
THEOREM OwnCasesOnly == Spec => []OnlyOwnCases
<1>1. DeployInv => OnlyOwnCases
  BY DEF DeployInv
<1> QED BY <1>1, DeploymentInvariance, PTL

\* A browser that did not clear its cookies, nor had two fetches without one at
\* once, can open every case it was told of.
THEOREM CookieIsEnough == Spec => []CookieOwnsCases
<1>1. DeployInv => CookieOwnsCases
  <2> SUFFICES ASSUME DeployInv, NEW c \in Fetch,
                      fetch[c].phase = "told", fetch[c].status = 201,
                      From(c) \notin cleared \cup raced
               PROVE  fetch[c].owner = jar[From(c)]
    BY DEF CookieOwnsCases
  <2>1. ExchangeOK(c) /\ Owner(c) \in Fetch
    BY OwnerTyped DEF DeployInv
  <2>2. From(c) \in Browser /\ fetch[c].owner # Null
    BY <2>1, DeploymentAssumption DEF ExchangeOK, DeploymentAssumption
  <2>3. JarOK(From(c))
    BY <2>2 DEF DeployInv
  <2> QED BY <2>2, <2>3 DEF JarOK
<1> QED BY <1>1, DeploymentInvariance, PTL

\* Where all instances share a store that lasts, an owner's case is found.
THEOREM SharedStoreFinds == Spec => []CasesAreFound
<1>1. DeployInv => CasesAreFound
  BY DEF DeployInv
<1> QED BY <1>1, DeploymentInvariance, PTL

\* A host that is configured, and keeps its key, answers 500 in two cases only,
\* and leaves no case EXECUTING.
THEOREM ErrorsAreConfigurations == Spec => []ErrorsAreConfiguration
<1>1. DeployInv => ErrorsAreConfiguration
  BY DEF DeployInv
<1> QED BY <1>1, DeploymentInvariance, PTL

\* A record changes in a handler, for the browser it came from.
LEMMA ChangeIsOwners ==
  ASSUME DeploymentAssumption, DeployInv, Next, NEW p \in Place, NEW c \in Fetch,
         records[p][c] # Null, records'[p][c] \notin {records[p][c], Null}
  PROVE  \E f \in Fetch : From(f) = From(c) /\ fetch[f].status = Null /\ fetch'[f].status # Null
<1>1. ASSUME NEW i \in Instance, Replace(i) PROVE FALSE
  BY <1>1 DEF Replace, Empty, DeployInv, TypeOK
<1>2. ~OfBrowser
  BY BrowsersLeaveHost
<1>3. PICK f \in Fetch, i \in Instance : Serve(i, f)
  BY <1>1, <1>2 DEF Next, OfBrowser
<1>4. PICK s \in Code, o \in Fetch \cup {Null} : Handled(i, f, s, o)
  BY <1>3, ServeIsHandled
<1>5. \/ /\ s = 201 /\ c = f /\ o = Owner(f) /\ records[p][c] = Null
         /\ records'[p][c] = [owner |-> Owner(f), key |-> KeyOf(i),
                              state |-> "AWAITING_APPROVAL"]
      \/ /\ Authorized(i, f) /\ c = fetch[f].case /\ records[p][c] = Stored(i, f)
         /\ \E state \in CaseState :
              /\ state = "EXECUTING" => KeyChanged
              /\ records'[p][c] = [Stored(i, f) EXCEPT !.state = state]
  BY <1>4, SavedRecord
<1>6. From(f) = From(c)
  BY <1>5, AuthorizedIsFrom
<1>7. fetch[f].status = Null /\ fetch'[f].status = s /\ s # Null
  BY <1>4 DEF Handled, Replied, Arrived, DeployInv, TypeOK, Exchange, DeploymentAssumption
<1> QED BY <1>6, <1>7

\* A record changes only by a request from the browser it came from.
THEOREM OwnerMovesOnly == Spec => OnlyOwnerMoves
<1>1. DeployInv /\ Next =>
        \A p \in Place, c \in Fetch :
           records[p][c] # Null /\ records'[p][c] \notin {records[p][c], Null} =>
             \E f \in Fetch : From(f) = From(c) /\ fetch[f].status = Null /\ fetch'[f].status # Null
  BY ChangeIsOwners, DeploymentAssumption
<1>2. DeployInv /\ [Next]_vars =>
        [\A p \in Place, c \in Fetch :
           records[p][c] # Null /\ records'[p][c] \notin {records[p][c], Null} =>
             \E f \in Fetch : /\ From(f) = From(c) /\ fetch[f].status = Null
                              /\ fetch'[f].status # Null]_vars
  BY <1>1
<1> QED BY <1>2, DeploymentInvariance, PTL DEF Spec, OnlyOwnerMoves

\* Every variable keeps its type.
THEOREM DeploymentTyped == Spec => []TypeOK
<1>1. DeployInv => TypeOK
  BY DEF DeployInv
<1> QED BY <1>1, DeploymentInvariance, PTL

-----------------------------------------------------------------------------
(* The promise of CaseRequests, where cases outlive the instances.         *)

\* A case is in one place, which is no instance's own.
OneRecord ==
  /\ \A i \in Instance, c \in Fetch : records[i][c] = Null
  /\ \A c \in Fetch, p, q \in Place : records[p][c] # Null /\ records[q][c] # Null => p = q

\* Instances share the places they keep cases in.
LEMMA SharedPlace ==
  ASSUME DeploymentAssumption, DeployInv, Lasting, NEW i \in Instance
  PROVE  PlaceOf(i) \in Place \ Instance
<1>1. instance[i] \in envs /\ instance[i] \in Config /\ PlaceOf(i) \in Place
  BY PlaceTyped DEF DeployInv, TypeOK, EnvsKnown
<1>2. PlaceOf(i) \in {"redis", "disk", "readonly"}
  BY <1>1 DEF Lasting, Durable, PlaceOf, Config
<1> QED BY <1>1, <1>2 DEF DeploymentAssumption

\* A handler creates a record only of its own fetch, and nowhere else is one.
LEMMA NewRecord ==
  ASSUME DeploymentAssumption, DeployInv, NEW i \in Instance, NEW f \in Fetch, Serve(i, f),
         NEW p \in Place, NEW c \in Fetch, records'[p][c] \notin {records[p][c], Null}
  PROVE  records[p][c] = Null =>
           /\ p = PlaceOf(i)
           /\ \A q \in Place : records[q][c] = Null /\ (q # p => records'[q][c] = Null)
<1>1. PICK s \in Code, o \in Fetch \cup {Null} : Handled(i, f, s, o)
  BY ServeIsHandled
<1>2. /\ p = PlaceOf(i)
      /\ \/ /\ s = 201 /\ c = f /\ o = Owner(f) /\ records[p][c] = Null
            /\ records'[p][c] = [owner |-> Owner(f), key |-> KeyOf(i),
                                 state |-> "AWAITING_APPROVAL"]
         \/ /\ Authorized(i, f) /\ c = fetch[f].case /\ records[p][c] = Stored(i, f)
            /\ \E state \in CaseState :
                 /\ state = "EXECUTING" => KeyChanged
                 /\ records'[p][c] = [Stored(i, f) EXCEPT !.state = state]
  BY <1>1, SavedRecord
<1> SUFFICES ASSUME records[p][c] = Null
             PROVE  \A q \in Place : records[q][c] = Null /\ (q # p => records'[q][c] = Null)
  BY <1>2
<1>3. s = 201 /\ c = f
  BY <1>2 DEF Authorized
<1>4. fetch[c].status # 201
  BY <1>1, <1>3 DEF Handled, Arrived, DeploymentAssumption, Code
<1>5. \A q \in Place : records[q][c] = Null
  BY <1>4 DEF DeployInv, RecordOK
<1>6. ASSUME NEW q \in Place, q # p PROVE records'[q][c] = Null
  <2>1. /\ records \in [Place -> [Fetch -> Record \cup {Null}]] /\ p = PlaceOf(i)
        /\ \E record : Saved(i, f, record)
    BY <1>1, <1>2, <1>3 DEF Handled, DeployInv, TypeOK
  <2> QED BY <1>5, <1>6, <2>1 DEF Saved
<1> QED BY <1>5, <1>6

\* Every step keeps cases in one place.
LEMMA NextOneRecord ==
  ASSUME DeploymentAssumption, DeployInv, Lasting, OneRecord, [Next]_vars
  PROVE  OneRecord'
<1>1. CASE UNCHANGED records
  BY <1>1 DEF OneRecord
<1>2. ASSUME NEW i \in Instance, Replace(i) PROVE OneRecord'
  <2>1. records' = [records EXCEPT ![i] = Empty] /\ records[i] = Empty
    <3>1. records[i] \in [Fetch -> Record \cup {Null}]
      BY DEF DeployInv, TypeOK, Place
    <3> QED BY <1>2, <3>1 DEF Replace, OneRecord, Empty
  <2>2. records' = records
    BY <2>1 DEF DeployInv, TypeOK
  <2> QED BY <1>1, <2>2
<1>3. ASSUME NEW i \in Instance, NEW f \in Fetch, Serve(i, f) PROVE OneRecord'
  <2>1. ASSUME NEW j \in Instance, NEW c \in Fetch PROVE records'[j][c] = Null
    <3>1. j \in Place /\ records[j][c] = Null /\ PlaceOf(i) # j
      BY SharedPlace DEF OneRecord, Place, DeployInv
    <3> QED BY <1>3, <3>1, NewRecord
  <2>2. ASSUME NEW c \in Fetch, NEW p \in Place, NEW q \in Place,
               records'[p][c] # Null, records'[q][c] # Null
        PROVE  p = q
    <3>1. CASE records[p][c] = Null
      BY <1>3, <2>2, <3>1, NewRecord
    <3>2. CASE records[q][c] = Null
      BY <1>3, <2>2, <3>2, NewRecord
    <3> QED BY <3>1, <3>2 DEF OneRecord
  <2> QED BY <2>1, <2>2 DEF OneRecord
<1>4. CASE OfBrowser
  BY <1>1, <1>4, BrowsersLeaveHost
<1>5. CASE UNCHANGED vars
  BY <1>1, <1>5 DEF vars
<1> QED BY <1>2, <1>3, <1>4, <1>5 DEF Next, OfBrowser

-----------------------------------------------------------------------------
\* What CaseRequests sees of a case is its one record.
Seen ==
  OneRecord =>
    \A c \in Fetch :
      /\ (\A p \in Place : records[p][c] = Null) => States[c] = "ABSENT"
      /\ \A p \in Place : records[p][c] # Null => States[c] = records[p][c].state

LEMMA AsSeen == Seen
<1> SUFFICES ASSUME OneRecord, NEW c \in Fetch
             PROVE  /\ (\A p \in Place : records[p][c] = Null) => States[c] = "ABSENT"
                    /\ \A p \in Place : records[p][c] # Null => States[c] = records[p][c].state
  BY DEF Seen
<1>1. ASSUME \A p \in Place : records[p][c] = Null PROVE States[c] = "ABSENT"
  BY <1>1 DEF States, StateOf, PlacesOf
<1>2. ASSUME NEW p \in Place, records[p][c] # Null PROVE States[c] = records[p][c].state
  <2>1. PlacesOf(c) = {p}
    BY <1>2 DEF PlacesOf, OneRecord
  <2>2. (CHOOSE q \in {p} : TRUE) = p
    OBVIOUS
  <2> QED BY <2>1, <2>2 DEF States, StateOf
<1> QED BY <1>1, <1>2

LEMMA AsSeenNext == Seen'
BY AsSeen, PTL

\* A step that leaves the records alone is not seen.
LEMMA NotSeen ==
  ASSUME UNCHANGED records
  PROVE  States' = States
BY DEF States, StateOf, PlacesOf

\* One that saves a record is seen as it is.
LEMMA SaveSeen ==
  ASSUME DeploymentAssumption, TypeOK, OneRecord', NEW i \in Instance, NEW c \in Fetch,
         NEW record, Saved(i, c, record), record # Null
  PROVE  States' = [States EXCEPT ![c] = record.state]
<1>1. records \in [Place -> [Fetch -> Record \cup {Null}]] /\ PlaceOf(i) \in Place
  BY PlaceTyped DEF TypeOK
<1>2. records'[PlaceOf(i)][c] = record
  BY <1>1 DEF Saved
<1>3. States'[c] = record.state
  BY <1>1, <1>2, AsSeenNext DEF Seen, Place
<1>4. ASSUME NEW d \in Fetch, d # c PROVE States'[d] = States[d]
  <2>1. \A p \in Place : records'[p][d] = records[p][d]
    BY <1>1, <1>4 DEF Saved
  <2>2. PlacesOf(d)' = PlacesOf(d)
    BY <2>1 DEF PlacesOf, Place
  <2>3. PlacesOf(d) # {} => (CHOOSE p \in PlacesOf(d) : TRUE) \in Place
    BY DEF PlacesOf
  <2>4. StateOf(d)' = StateOf(d)
    BY <2>1, <2>2, <2>3 DEF StateOf
  <2> QED BY <2>4 DEF States
<1> QED BY <1>3, <1>4 DEF States

\* A fetch of a route that calls a method asks for it.
LEMMA CallSeen ==
  ASSUME DeploymentAssumption, DeployInv, NEW f \in Fetch, Calls(f)
  PROVE  /\ CaseOf(f) \in Fetch
         /\ Asked[f] = [kind |-> fetch[f].kind, case |-> CaseOf(f)] /\ Asked[f] # Null
<1>1. ExchangeOK(f) /\ fetch[f].phase # "unused"
  BY DEF DeployInv, Calls
<1>2. CaseOf(f) \in Fetch
  BY <1>1 DEF ExchangeOK, Submitted, CaseOf
<1>3. [kind |-> fetch[f].kind, case |-> CaseOf(f)]
        \in [kind : {"submit", "approve", "reject"}, case : Fetch]
  BY <1>2 DEF Calls
<1> QED BY <1>2, <1>3 DEF Asked, AskedBy, DeploymentAssumption

\* An answer is seen if its fetch is one of these.
LEMMA AnswerSeen ==
  ASSUME DeploymentAssumption, DeployInv, NEW f \in Fetch, Arrived(f),
         NEW s \in Code, NEW o, Replied(f, s, o)
  PROVE  /\ Asked' = Asked
         /\ ~Calls(f) => Answers' = Answers
         /\ Calls(f) => /\ Answers[f] = "none"
                        /\ Answers' = [Answers EXCEPT ![f] =
                             IF s \in {200, 201} THEN "done" ELSE "failed"]
<1>1. fetch \in [Fetch -> Exchange] /\ s # Null
  BY DEF DeployInv, TypeOK, DeploymentAssumption
<1>2. \A g \in Fetch : g # f => fetch'[g] = fetch[g]
  BY <1>1 DEF Replied
<1>3. /\ fetch'[f].phase = fetch[f].phase /\ fetch'[f].kind = fetch[f].kind
      /\ fetch'[f].case = fetch[f].case /\ fetch'[f].status = s /\ fetch[f].status = Null
  BY <1>1 DEF Replied, Exchange, Arrived
<1>4. \A g \in Fetch : (Calls(g)' <=> Calls(g)) /\ CaseOf(g)' = CaseOf(g)
  BY <1>2, <1>3 DEF Calls, CaseOf
<1>5. \A g \in Fetch : AskedBy(g)' = AskedBy(g)
  BY <1>2, <1>3, <1>4 DEF AskedBy
<1>6. \A g \in Fetch : g # f => AnswerTo(g)' = AnswerTo(g)
  BY <1>2, <1>4 DEF AnswerTo
<1>7. ~Calls(f) => AnswerTo(f)' = AnswerTo(f)
  BY <1>4 DEF AnswerTo
<1>8. Calls(f) => /\ AnswerTo(f) = "none"
                  /\ AnswerTo(f)' = IF s \in {200, 201} THEN "done" ELSE "failed"
  BY <1>1, <1>3, <1>4 DEF AnswerTo
<1>9. Asked' = Asked
  BY <1>5 DEF Asked
<1>10. ~Calls(f) => Answers' = Answers
  BY <1>6, <1>7 DEF Answers
<1>11. Calls(f) => /\ Answers[f] = "none"
                   /\ Answers' = [Answers EXCEPT ![f] =
                        IF s \in {200, 201} THEN "done" ELSE "failed"]
  BY <1>6, <1>8 DEF Answers
<1> QED BY <1>9, <1>10, <1>11

-----------------------------------------------------------------------------
\* What CaseRequests lets a call do.
LEMMA CallSteps ==
  /\ [kind |-> "submit", from |-> "ABSENT", to |-> "AWAITING_APPROVAL"] \in Requests!Whole
  /\ \A to \in {"VERIFIED_SUCCESS", "EXECUTION_FAILED"} :
       [kind |-> "approve", from |-> "AWAITING_APPROVAL", to |-> to] \in Requests!Whole
  /\ [kind |-> "reject", from |-> "AWAITING_APPROVAL", to |-> "REJECTED"] \in Requests!Whole
  /\ [kind |-> "approve", from |-> "AWAITING_APPROVAL", to |-> "EXECUTING"] \in Requests!Part
BY DEF Requests!Whole, Requests!Part, Requests!Takes

\* The states a case can be decided on in.
LEMMA Decidable ==
  ASSUME NEW state, Legal(state, "APPROVE") \/ Legal(state, "REJECT")
  PROVE  state = "AWAITING_APPROVAL"
BY DEF Legal, Transitions, Entries

\* An answer to another fetch, which leaves the records alone, is not seen.
LEMMA OtherAnswer ==
  ASSUME DeploymentAssumption, DeployInv, NEW f \in Fetch, Arrived(f), ~Calls(f),
         NEW s \in Code, NEW o, Replied(f, s, o), UNCHANGED records
  PROVE  UNCHANGED <<States, Asked, Answers>>
BY AnswerSeen, NotSeen

\* A call that is answered has done all it asks for.
LEMMA AnswerServes ==
  ASSUME DeploymentAssumption, DeployInv, OneRecord', NEW f \in Fetch, Arrived(f), Calls(f),
         NEW s \in {200, 201}, NEW o, Replied(f, s, o),
         NEW i \in Instance, NEW record, Saved(i, CaseOf(f), record), record # Null,
         NEW from, from = States[CaseOf(f)], NEW to, to = record.state,
         [kind |-> fetch[f].kind, from |-> from, to |-> to] \in Requests!Whole
  PROVE  Requests!Serve(f)
<1> DEFINE step == [kind |-> fetch[f].kind, from |-> from, to |-> to]
<1>1. /\ CaseOf(f) \in Fetch /\ s \in Code
      /\ Asked[f] = [kind |-> fetch[f].kind, case |-> CaseOf(f)] /\ Asked[f] # Null
  BY CallSeen DEF Code
<1>2. Asked' = Asked /\ Answers[f] = "none" /\ Answers' = [Answers EXCEPT ![f] = "done"]
  BY <1>1, AnswerSeen
<1>3. States' = [States EXCEPT ![CaseOf(f)] = to]
  BY <1>1, SaveSeen DEF DeployInv
<1>4. /\ step \in Requests!Whole /\ step.kind = Asked[f].kind
      /\ step.from = States[Asked[f].case]
      /\ States' = [States EXCEPT ![Asked[f].case] = step.to]
  BY <1>1, <1>3
<1> HIDE DEF step
<1> QED BY <1>1, <1>2, <1>4 DEF Requests!Serve, Requests!Open

\* A decision that is refused has done nothing.
LEMMA AnswerRefuses ==
  ASSUME DeploymentAssumption, DeployInv, NEW f \in Fetch, Arrived(f), Calls(f),
         fetch[f].kind # "submit", NEW s \in Code \ {200, 201}, NEW o, Replied(f, s, o),
         UNCHANGED records
  PROVE  Requests!Refuse(f)
<1>1. Asked[f] = [kind |-> fetch[f].kind, case |-> CaseOf(f)] /\ Asked[f] # Null
  BY CallSeen
<1>2. Asked' = Asked /\ Answers[f] = "none" /\ Answers' = [Answers EXCEPT ![f] = "failed"]
  BY AnswerSeen
<1>3. States' = States
  BY NotSeen
<1> QED BY <1>1, <1>2, <1>3 DEF Requests!Refuse, Requests!Open

\* A call that fails otherwise does so for the configuration of its instance.
LEMMA AnswerFails ==
  ASSUME DeploymentAssumption, DeployInv, NEW i \in Instance, NEW f \in Fetch, Serve(i, f),
         Arrived(f), Calls(f), NEW s \in Code \ {200, 201}, NEW o, Replied(f, s, o),
         \/ fetch[f].kind = "submit" /\ ~Usable(instance[i]) /\ UNCHANGED records
         \/ /\ fetch[f].kind = "approve" /\ Authorized(i, f) /\ ~Decrypts(i, Stored(i, f))
            /\ States[fetch[f].case] = "AWAITING_APPROVAL"
            /\ States' = [States EXCEPT ![fetch[f].case] = "EXECUTING"]
  PROVE  FailsConfigured(i, f)
BY AnswerSeen, NotSeen DEF FailsConfigured

-----------------------------------------------------------------------------
\* An answer that a handler gives is a reply to the owner.
LEMMA AnswerIsReply ==
  ASSUME NEW f, NEW s, Answer(f, s)
  PROVE  Replied(f, s, Owner(f))
BY DEF Answer, Replied

\* A handler that has a decision on a case finds its record as CaseRequests does.
LEMMA Finds ==
  ASSUME DeploymentAssumption, DeployInv, OneRecord, NEW i \in Instance, NEW f \in Fetch,
         Authorized(i, f)
  PROVE  /\ fetch[f].kind # "submit" /\ fetch[f].case \in Fetch /\ Arrived(f)
         /\ Stored(i, f) \in Record /\ States[fetch[f].case] = Stored(i, f).state
         /\ \A state \in CaseState :
              LET record == [Stored(i, f) EXCEPT !.state = state]
              IN record # Null /\ record.state = state
<1>1. fetch[f].kind # "submit" /\ Arrived(f) /\ PlaceOf(i) \in Place
  BY PlaceTyped DEF Authorized, Looks, Identified, DeployInv
<1>2. fetch[f].case \in Fetch
  BY AuthorizedIsFrom DEF Submitted
<1>3. Stored(i, f) \in Record /\ Stored(i, f) # Null
  BY <1>1, <1>2 DEF Authorized, Stored, DeployInv, TypeOK
<1>4. States[fetch[f].case] = Stored(i, f).state
  BY <1>1, <1>2, <1>3, AsSeen DEF Seen, Stored
<1>5. ASSUME NEW state \in CaseState
      PROVE  LET record == [Stored(i, f) EXCEPT !.state = state]
             IN record # Null /\ record.state = state
  <2>1. [Stored(i, f) EXCEPT !.state = state] \in Record
    BY <1>3 DEF Record
  <2> QED BY <1>3, <2>1 DEF Record, DeploymentAssumption
<1> QED BY <1>1, <1>2, <1>3, <1>4, <1>5

\* What a handler does for the routes that call no method.
LEMMA OtherHandled ==
  ASSUME DeploymentAssumption, DeployInv, NEW i \in Instance, NEW f \in Fetch, Serve(i, f),
         ~Calls(f)
  PROVE  UNCHANGED <<States, Asked, Answers>>
<1>1. PICK s \in Code, o \in Fetch \cup {Null} : Handled(i, f, s, o)
  BY ServeIsHandled
<1>2. Arrived(f) /\ Replied(f, s, o) /\ fetch[f].kind \notin {"submit", "approve", "reject"}
  BY <1>1 DEF Handled, Calls, Arrived
<1>3. UNCHANGED records
  BY <1>2 DEF Serve, Stranger, Unconfigured, Submit, Missing, Forbidden, Read, Reject,
              Approve, Verify, Fail, Show
<1> QED BY <1>2, <1>3, OtherAnswer

\* What the handler of a submission does.
LEMMA SubmitHandled ==
  ASSUME DeploymentAssumption, DeployInv, OneRecord, OneRecord', NEW i \in Instance,
         NEW f \in Fetch, Submit(i, f)
  PROVE  Requests!Serve(f) \/ FailsConfigured(i, f)
<1> DEFINE record == [owner |-> Owner(f), key |-> KeyOf(i), state |-> "AWAITING_APPROVAL"]
<1>1. /\ Arrived(f) /\ Calls(f) /\ fetch[f].kind = "submit" /\ CaseOf(f) = f
      /\ fetch[f].status = Null
  BY DEF Submit, Identified, Arrived, Calls, CaseOf
<1>2. CASE Encrypts(i) /\ PlaceOf(i) # "readonly"
  <2>1. Replied(f, 201, Owner(f)) /\ Saved(i, CaseOf(f), record)
    BY <1>1, <1>2, AnswerIsReply DEF Submit
  <2>2. instance[i].key \in Key \cup {"unset", "malformed"}
    BY PlaceTyped DEF Config, DeployInv
  <2>3. KeyOf(i) \in Key
    BY <1>2, <2>2 DEF Submit, Ready, Encrypts, KeyOf
  <2>4. record \in Record
    BY <2>3, OwnerTyped DEF Record, CaseState, DeployInv
  <2>5. record # Null /\ record.state = "AWAITING_APPROVAL"
    BY <2>4 DEF DeploymentAssumption
  <2>6. States[f] = "ABSENT"
    <3>1. \A p \in Place : records[p][f] = Null
      BY <1>1 DEF DeployInv, RecordOK, DeploymentAssumption, Code
    <3> QED BY <3>1, AsSeen DEF Seen
  <2> HIDE DEF record
  <2> QED BY <1>1, <2>1, <2>5, <2>6, AnswerServes, CallSteps
<1>3. CASE ~(Encrypts(i) /\ PlaceOf(i) # "readonly")
  <2>1. Replied(f, 500, Owner(f)) /\ UNCHANGED records
    BY <1>1, <1>3, AnswerIsReply DEF Submit, Fail, Status, errorResponse
  <2>2. ~Usable(instance[i])
    BY <1>3, PlaceTyped DEF Usable, PlaceOf, Encrypts, KeyOf, DeploymentAssumption, DeployInv
  <2>3. PICK s \in Code \ {200, 201} : Replied(f, s, Owner(f))
    BY <2>1 DEF Code
  <2>4. Serve(i, f)
    BY DEF Serve
  <2> QED BY <1>1, <2>1, <2>2, <2>3, <2>4, AnswerFails
<1> QED BY <1>2, <1>3

\* What the handler of a rejection does.
LEMMA RejectHandled ==
  ASSUME DeploymentAssumption, DeployInv, OneRecord, OneRecord', NEW i \in Instance,
         NEW f \in Fetch, Reject(i, f)
  PROVE  Requests!Serve(f) \/ Requests!Refuse(f)
<1>1. /\ Authorized(i, f) /\ Arrived(f) /\ Calls(f) /\ fetch[f].kind = "reject"
      /\ CaseOf(f) = fetch[f].case
  BY Finds DEF Reject, Arrived, Calls, CaseOf
<1>2. CASE Legal(Stored(i, f).state, "REJECT")
  <2>1. PICK record : record = [Stored(i, f) EXCEPT !.state = "REJECTED"]
    OBVIOUS
  <2>2. Replied(f, 200, Owner(f)) /\ Saved(i, CaseOf(f), record)
    BY <1>1, <1>2, <2>1, AnswerIsReply DEF Reject
  <2>3. record # Null /\ record.state = "REJECTED"
    BY <1>1, <2>1, Finds DEF CaseState
  <2>4. States[CaseOf(f)] = "AWAITING_APPROVAL"
    BY <1>1, <1>2, Finds, Decidable
  <2> QED BY <1>1, <2>2, <2>3, <2>4, AnswerServes, CallSteps
<1>3. CASE ~Legal(Stored(i, f).state, "REJECT")
  <2>1. Replied(f, 409, Owner(f)) /\ UNCHANGED records
    BY <1>1, <1>3, AnswerIsReply DEF Reject, Fail, Status, errorResponse
  <2> QED BY <1>1, <2>1, AnswerRefuses DEF Code
<1> QED BY <1>2, <1>3

\* What the handler of an approval does.
LEMMA ApproveHandled ==
  ASSUME DeploymentAssumption, DeployInv, OneRecord, OneRecord', NEW i \in Instance,
         NEW f \in Fetch, Approve(i, f)
  PROVE  Requests!Serve(f) \/ Requests!Refuse(f) \/ FailsConfigured(i, f)
<1>1. /\ Authorized(i, f) /\ Arrived(f) /\ Calls(f) /\ fetch[f].kind = "approve"
      /\ CaseOf(f) = fetch[f].case
  BY Finds DEF Approve, Arrived, Calls, CaseOf
<1>2. CASE ~Legal(Stored(i, f).state, "APPROVE")
  <2>1. Replied(f, 409, Owner(f)) /\ UNCHANGED records
    BY <1>1, <1>2, AnswerIsReply DEF Approve, Fail, Status, errorResponse
  <2> QED BY <1>1, <2>1, AnswerRefuses DEF Code
<1>3. CASE Legal(Stored(i, f).state, "APPROVE")
  <2>1. PICK state \in IF Decrypts(i, Stored(i, f))
                       THEN {"VERIFIED_SUCCESS", "EXECUTION_FAILED"} ELSE {"EXECUTING"} :
          /\ Saved(i, CaseOf(f), [Stored(i, f) EXCEPT !.state = state])
          /\ Answer(f, IF state = "EXECUTING" THEN Status(f, "Error") ELSE 200)
    BY <1>1, <1>3 DEF Approve
  <2>2. PICK record : record = [Stored(i, f) EXCEPT !.state = state]
    OBVIOUS
  <2>3. record # Null /\ record.state = state /\ Saved(i, CaseOf(f), record)
    <3>1. state \in CaseState
      BY DEF CaseState
    <3> QED BY <1>1, <2>1, <2>2, <3>1, Finds
  <2>4. States[CaseOf(f)] = "AWAITING_APPROVAL"
    BY <1>1, <1>3, Finds, Decidable
  <2>5. CASE Decrypts(i, Stored(i, f))
    <3>1. state \in {"VERIFIED_SUCCESS", "EXECUTION_FAILED"} /\ Replied(f, 200, Owner(f))
      BY <2>1, <2>5, AnswerIsReply
    <3> QED BY <1>1, <2>3, <2>4, <3>1, AnswerServes, CallSteps
  <2>6. CASE ~Decrypts(i, Stored(i, f))
    <3>1. state = "EXECUTING" /\ Replied(f, 500, Owner(f))
      BY <2>1, <2>6, AnswerIsReply DEF Status, errorResponse
    <3>4. CaseOf(f) \in Fetch
      BY <1>1, Finds
    <3>5. States' = [States EXCEPT ![CaseOf(f)] = "EXECUTING"]
      BY <2>3, <3>1, <3>4, SaveSeen DEF DeployInv
    <3>6. PICK s \in Code \ {200, 201} : Replied(f, s, Owner(f))
      BY <3>1 DEF Code
    <3>7. Serve(i, f)
      BY DEF Serve
    <3> QED BY <1>1, <2>4, <2>6, <3>5, <3>6, <3>7, AnswerFails
  <2> QED BY <2>5, <2>6
<1> QED BY <1>2, <1>3

\* What a handler does that has not got to its method.
LEMMA TurnedAway ==
  ASSUME DeploymentAssumption, DeployInv, NEW i \in Instance, NEW f \in Fetch, Calls(f),
         Unconfigured(i, f) \/ Missing(i, f) \/ Forbidden(i, f)
  PROVE  Requests!Refuse(f) \/ FailsConfigured(i, f)
<1>1. PICK s \in Code \ {200, 201} :
        Arrived(f) /\ Replied(f, s, Owner(f)) /\ UNCHANGED records
  BY AnswerIsReply DEF Unconfigured, Missing, Forbidden, Looks, Identified, Fail, Status,
                       errorResponse, Code
<1>2. CASE fetch[f].kind # "submit"
  BY <1>1, <1>2, AnswerRefuses
<1>3. CASE fetch[f].kind = "submit"
  <2>1. ~Usable(instance[i])
    BY <1>3 DEF Unconfigured, Missing, Forbidden, Looks, Usable, Ready, KeyOf,
                DeploymentAssumption
  <2>2. Serve(i, f)
    BY DEF Serve
  <2> QED BY <1>1, <1>3, <2>1, <2>2, AnswerFails
<1> QED BY <1>2, <1>3

\* A fetch that is sent is asked, if it is for a route that calls a method.
LEMMA SendAsks ==
  ASSUME DeploymentAssumption, DeployInv, NEW b \in Browser, NEW f \in Fetch, Send(b, f)
  PROVE  Requests!Ask(f) \/ UNCHANGED <<States, Asked, Answers>>
<1>1. PICK kind \in Kind, c \in Fetch \cup {Null} :
        /\ fetch' = [fetch EXCEPT ![f] = Request(b, kind, c)]
        /\ kind # "submit" => c \in Submitted
  BY SendIsRequest DEF DeployInv
<1>2. /\ fetch \in [Fetch -> Exchange] /\ fetch[f].phase = "unused"
      /\ \A g \in Fetch : g # f => fetch'[g] = fetch[g]
      /\ fetch'[f].phase = "sent" /\ fetch'[f].kind = kind /\ fetch'[f].case = c
      /\ fetch'[f].status = Null /\ UNCHANGED records
  BY <1>1 DEF DeployInv, TypeOK, Send, Request, Unused
<1>3. States' = States
  BY <1>2, NotSeen
<1>4. \A g \in Fetch : g # f => AskedBy(g)' = AskedBy(g) /\ AnswerTo(g)' = AnswerTo(g)
  BY <1>2 DEF AskedBy, AnswerTo, Calls, CaseOf
<1>5. AskedBy(f) = Null /\ AnswerTo(f) = "none" /\ AnswerTo(f)' = "none"
  BY <1>2 DEF AskedBy, AnswerTo, Calls
<1>6. Answers' = Answers
  BY <1>4, <1>5 DEF Answers
<1>7. CASE kind \notin {"submit", "approve", "reject"}
  <2>1. AskedBy(f)' = Null
    BY <1>2, <1>7 DEF AskedBy, Calls
  <2>2. Asked' = Asked
    BY <1>4, <1>5, <2>1 DEF Asked
  <2> QED BY <1>3, <1>6, <2>2
<1>8. CASE kind \in {"submit", "approve", "reject"}
  <2>1. PICK d \in Fetch : d = IF kind = "submit" THEN f ELSE c
    BY <1>1 DEF Submitted
  <2>2. AskedBy(f)' = [kind |-> kind, case |-> d]
    BY <1>2, <1>8, <2>1 DEF AskedBy, Calls, CaseOf
  <2>3. Asked[f] = Null /\ Asked' = [Asked EXCEPT ![f] = [kind |-> kind, case |-> d]]
    BY <1>4, <1>5, <2>2 DEF Asked
  <2> QED BY <1>3, <1>6, <1>8, <2>1, <2>3 DEF Requests!Ask, Requests!Kind
<1> QED BY <1>7, <1>8

\* What a step of the routes may be to CaseRequests.
Promised ==
  \/ UNCHANGED Requests!vars
  \/ \E f \in Fetch : \/ Requests!Ask(f) \/ Requests!Serve(f) \/ Requests!Refuse(f)
                     \/ \E i \in Instance : FailsConfigured(i, f)

\* A step is one of CaseRequests, or fails for its instance's configuration, or
\* changes nothing that CaseRequests sees.
LEMMA RoutesStep ==
  ASSUME DeploymentAssumption, Lasting, DeployInv, OneRecord, [Next]_vars
  PROVE  Promised
<1> USE DEF Promised, Requests!vars
<1>0. OneRecord'
  BY NextOneRecord
<1>1. ASSUME NEW b \in Browser, NEW f \in Fetch, Send(b, f)
      PROVE  Promised
  BY <1>1, SendAsks
<1>2. ASSUME NEW f \in Fetch, Receive(f) \/ Lose(f) PROVE UNCHANGED <<States, Asked, Answers>>
  <2>1. PICK phase \in {"told", "lost"} :
          fetch[f].phase = "sent" /\ fetch' = [fetch EXCEPT ![f].phase = phase]
    BY <1>2 DEF Receive, Lose, Pending
  <2>2. fetch \in [Fetch -> Exchange] /\ UNCHANGED records
    BY <1>2 DEF DeployInv, TypeOK, Receive, Lose
  <2>3. \A g \in Fetch : /\ fetch'[g].phase # "unused" <=> fetch[g].phase # "unused"
                         /\ fetch'[g].kind = fetch[g].kind /\ fetch'[g].case = fetch[g].case
                         /\ fetch'[g].status = fetch[g].status
    BY <2>1, <2>2 DEF Exchange
  <2>4. \A g \in Fetch : AskedBy(g)' = AskedBy(g) /\ AnswerTo(g)' = AnswerTo(g)
    BY <2>3 DEF AskedBy, AnswerTo, Calls, CaseOf
  <2>5. Asked' = Asked /\ Answers' = Answers
    BY <2>4 DEF Asked, Answers
  <2> QED BY <2>2, <2>5, NotSeen
<1>3. ASSUME UNCHANGED <<records, fetch>> PROVE UNCHANGED <<States, Asked, Answers>>
  BY <1>3, NotSeen DEF Asked, Answers, AskedBy, AnswerTo, Calls, CaseOf
<1>4. ASSUME NEW i \in Instance, Replace(i) PROVE UNCHANGED <<States, Asked, Answers>>
  <2>1. \A c \in Fetch : records[i][c] = Null
    BY DEF OneRecord
  <2>2. records[i] = Empty
    BY <2>1 DEF DeployInv, TypeOK, Place, Empty
  <2>3. records' = records
    BY <1>4, <2>2 DEF Replace, DeployInv, TypeOK, Place
  <2> QED BY <1>3, <1>4, <2>3 DEF Replace
<1>5. ASSUME NEW i \in Instance, NEW f \in Fetch, Serve(i, f)
      PROVE  Promised
  <2>1. CASE ~Calls(f)
    BY <1>5, <2>1, OtherHandled
  <2>2. CASE Calls(f)
    <3>1. \/ Submit(i, f) \/ Reject(i, f) \/ Approve(i, f)
          \/ Unconfigured(i, f) \/ Missing(i, f) \/ Forbidden(i, f)
      BY <1>5, <2>2 DEF Serve, Stranger, Read, Verify, Calls
    <3> QED
      BY <1>0, <2>2, <3>1, SubmitHandled, RejectHandled, ApproveHandled, TurnedAway
  <2> QED BY <2>1, <2>2
<1>6. ASSUME NEW b \in Browser, ClearCookies(b) PROVE UNCHANGED <<States, Asked, Answers>>
  BY <1>3, <1>6 DEF ClearCookies
<1>7. CASE UNCHANGED vars
  BY <1>3, <1>7 DEF vars
<1> QED BY <1>1, <1>2, <1>4, <1>5, <1>6, <1>7 DEF Next

\* Nothing has happened yet.
LEMMA InitPromise == Init => OneRecord /\ Requests!Init
<1> SUFFICES ASSUME Init PROVE OneRecord /\ Requests!Init
  OBVIOUS
<1>1. \A p \in Place, c \in Fetch : records[p][c] = Null
  BY DEF Init, Empty
<1>2. OneRecord
  BY <1>1 DEF OneRecord, Place
<1>3. \A f \in Fetch : ~Calls(f)
  BY DEF Init, Unused, Calls
<1> QED
  BY <1>1, <1>2, <1>3, AsSeen
     DEF Seen, Requests!Init, States, Asked, AskedBy, Answers, AnswerTo

\* Environments that have been stay among those that were.
LEMMA LastingBefore ==
  ASSUME DeploymentAssumption, DeployInv, [Next]_vars, Lasting'
  PROVE  Lasting
<1>1. envs \subseteq envs'
  BY Growth DEF vars
<1> QED BY <1>1 DEF Lasting, Durable, KvConfigured

\* Where cases are while they outlive the instances.
LEMMA LastingInvariance == Spec => [](Lasting => OneRecord)
<1>1. Init => OneRecord
  BY InitPromise
<1>2. DeployInv /\ (Lasting => OneRecord) /\ [Next]_vars => (Lasting => OneRecord)'
  BY NextOneRecord, LastingBefore, DeploymentAssumption
<1> QED BY <1>1, <1>2, DeploymentInvariance, PTL DEF Spec

\* As long as cases outlive the instances, the routes keep the promise of
\* CaseRequests, whatever is lost, cleared or changed: an answer of 200 or 201 is to
\* a call that was done as a whole, another status to one that was not done, and only
\* an instance that cannot decrypt the very case leaves it half way.
THEOREM RoutesKeepPromise == Spec => PromiseWhileLasting
<1>1. Init => Requests!Init
  BY InitPromise
<1>2. DeployInv /\ (Lasting => OneRecord) /\ [Next]_vars =>
        [Lasting =>
          \/ UNCHANGED Requests!vars
          \/ \E f \in Fetch : \/ Requests!Ask(f) \/ Requests!Serve(f) \/ Requests!Refuse(f)
                             \/ \E i \in Instance : FailsConfigured(i, f)]_<<records, fetch>>
  BY RoutesStep, DeploymentAssumption DEF Promised
<1> QED
  BY <1>1, <1>2, DeploymentInvariance, LastingInvariance, PTL DEF Spec, PromiseWhileLasting

\* An instance that is usable, with the one key there is, fails no call.
LEMMA ConfiguredServes ==
  ASSUME DeploymentAssumption, DeployInv, NEW i \in Instance, NEW f \in Fetch,
         \A e, d \in Environment : Usable(e) /\ e.key = d.key
  PROVE  ~FailsConfigured(i, f)
<1>1. instance[i] \in Environment /\ envs \subseteq Environment
  BY DEF DeployInv, TypeOK
<1>2. ASSUME Authorized(i, f), ~Decrypts(i, Stored(i, f)) PROVE FALSE
  <2>1. \E e \in envs : Stored(i, f).key = e.key
    BY <1>2, AuthorizedIsFrom, PlaceTyped DEF DeployInv, RecordOK, Stored, Authorized, Submitted
  <2> QED BY <1>1, <1>2, <2>1 DEF Decrypts, KeyOf
<1> QED BY <1>1, <1>2 DEF FailsConfigured

\* If every environment is usable, with the same key and a store that outlives the
\* instances, the routes implement CaseRequests, with no call cut short.
THEOREM RoutesImplementRequests ==
  ASSUME \A e, d \in Environment : Durable(e) /\ Usable(e) /\ e.key = d.key
  PROVE  Spec => ImplementsRequests
<1>1. Init => Requests!Init
  BY InitPromise
<1>2. DeployInv /\ (Lasting => OneRecord) /\ [Next]_vars => [Requests!Next]_(Requests!vars)
  <2>1. DeployInv => Lasting
    BY DEF DeployInv, TypeOK, Lasting
  <2> QED
    BY <2>1, RoutesStep, ConfiguredServes, DeploymentAssumption
       DEF Promised, Requests!Next, Requests!Uncut
<1> QED
  BY <1>1, <1>2, DeploymentInvariance, LastingInvariance, PTL
     DEF Spec, ImplementsRequests, Requests!Spec
==============================================================================
