---------------------------- MODULE ServiceToken ----------------------------
(***************************************************************************)
(* Authorization of one gateway process (shared_kernel/auth.py): the check *)
(* of a client's bearer token (authorize_request), the service token the   *)
(* gateway sends on (build_service_authorization) and its check by the     *)
(* services that evaluate_credit posts to.                                 *)
(*                                                                         *)
(* A process asks for tokens under one cache key.  Requests are coroutines *)
(* of one event loop: they interleave where the code awaits, that is at    *)
(* the lock, during the request to the authorization server and during the *)
(* posts.  Time is counted in units; true, local and monotonic time agree  *)
(* up to the leeway of the check, and a service is asked for one answer    *)
(* no longer than the time limits of the code allow.                       *)
(***************************************************************************)
EXTENDS Naturals, Sequences

CONSTANTS
  Requests,        \* requests to credit_evaluate a process has at one time
  Headers,         \* Authorization headers clients send
  ServiceClaims,   \* claims the service's tokens may be configured to carry
  RequiredScopes,  \* auth_required_scope, as a set of at most one
  RequiredAudiences,
  Malformed,       \* an aud claim of another shape
  None,
  Lifetimes,       \* expires_in values of the authorization server
  LocalLifetime,   \* of a token signed with the shared secret: 300 s
  Margin,          \* a cached token is used until so long before its end: 30 s
  Floor,           \* a token is cached for so long at least: 60 s
  Leeway,          \* auth_clock_skew_seconds
  AskSpan,         \* longest request to the authorization server
  PostSpan,        \* longest run of the posts, retries and back-offs included
  Posts,           \* feature, scoring, decision
  MaxTime          \* bound of the clock

Longer(life) == IF life < Floor THEN Floor ELSE life

\* What the settings must keep to for a token to outlive the posts it is
\* sent with, the lifetimes below the 60 s floor included.
ASSUME TimesAssumption ==
  /\ Lifetimes \subseteq Nat /\ LocalLifetime \in Nat /\ Leeway \in Nat
  /\ Margin \in Nat /\ Floor \in Nat /\ Margin < Floor
  /\ AskSpan \in Nat /\ PostSpan \in Nat /\ Posts \in Nat \ {0} /\ MaxTime \in Nat
  /\ PostSpan < LocalLifetime + Leeway
  /\ \A life \in Lifetimes :
        AskSpan + PostSpan + Longer(life) <= life + Margin + Leeway

ASSUME NoneAssumption == None \notin Requests

VARIABLES
  mode,     \* auth_mode, and whether auth_shared_secret is set
  claims,   \* of the service's tokens
  now,
  cached,   \* _SERVICE_TOKENS[cache_key]: real end, and expires_at_monotonic
  lock,     \* the request that holds _SERVICE_TOKEN_LOCKS[cache_key]
  queue,    \* the requests that wait for it, in order
  pc,
  since,    \* when the present wait of a request began
  held,     \* the token a request has in hand
  stage,    \* posts done
  status    \* the HTTP status of the answer

settings == <<mode, claims>>
store == <<cached, lock, queue>>
request == <<pc, since, held, stage, status>>
vars == <<settings, now, store, request>>

\* A slot is free before its first request and between two of them.
Free == {"new", "refused", "failed", "done"}
PCs == Free \union {"admitted", "queued", "asking", "issued", "posting"}
Statuses == {0, 200, 401, 403, 500, 502, 503}

Held == [exp : Nat, life : Nat]
Cached == [exp : Nat, until : Nat]

Init ==
  /\ mode \in {"disabled", "shared", "provider"}
  /\ claims \in ServiceClaims
  /\ now = 0
  /\ cached = None
  /\ lock = None
  /\ queue = <<>>
  /\ pc = [r \in Requests |-> "new"]
  /\ since = [r \in Requests |-> 0]
  /\ held = [r \in Requests |-> None]
  /\ stage = [r \in Requests |-> 0]
  /\ status = [r \in Requests |-> 0]

-----------------------------------------------------------------------------
(***************************************************************************)
(* authorize_request: the status of the first check that fails.            *)
(***************************************************************************)
\* jwt.decode with the leeway.
Unexpired(exp) == now < exp + Leeway

\* _extract_scopes: both claims count, each a string or a list.
Scopes(c) == c.scope \union c.scp

\* _build_principal, _enforce_audience, _enforce_scope, in this order.
ClaimsVerdict(c) ==
  IF ~ c.subject \/ c.aud = Malformed THEN 502
  ELSE IF RequiredAudiences \subseteq c.aud /\ RequiredScopes \subseteq Scopes(c)
       THEN 200
       ELSE 403

\* extract_bearer_token, then _decode_token, then the claims.
Verdict(header) ==
  IF mode = "disabled" THEN 200
  ELSE IF header.scheme # "bearer" \/ ~ header.signed \/ ~ Unexpired(header.exp)
       THEN 401
       ELSE ClaimsVerdict(header.claims)

\* The same check by a service, of the gateway's own header.
ServiceVerdict(r) ==
  IF mode = "disabled" THEN 200
  ELSE IF Unexpired(held[r].exp) THEN ClaimsVerdict(claims) ELSE 401

\* The answer of r is `code`; what it had in hand is gone.
Answer(r, end, code) ==
  /\ pc' = [pc EXCEPT ![r] = end]
  /\ status' = [status EXCEPT ![r] = code]
  /\ since' = [since EXCEPT ![r] = 0]
  /\ held' = [held EXCEPT ![r] = None]
  /\ stage' = [stage EXCEPT ![r] = 0]

-----------------------------------------------------------------------------
(***************************************************************************)
(* The front door.                                                         *)
(***************************************************************************)
Admit(r, header) ==
  /\ pc[r] \in Free
  /\ Verdict(header) = 200
  /\ pc' = [pc EXCEPT ![r] = "admitted"]
  /\ status' = [status EXCEPT ![r] = 0]
  /\ UNCHANGED <<settings, now, store, since, held, stage>>

Refuse(r, header) ==
  /\ pc[r] \in Free
  /\ Verdict(header) # 200
  /\ Answer(r, "refused", Verdict(header))
  /\ UNCHANGED <<settings, now, store>>

\* PyJWKClientConnectionError
SigningKeysUnavailable(r) ==
  /\ pc[r] \in Free
  /\ mode = "provider"
  /\ Answer(r, "refused", 503)
  /\ UNCHANGED <<settings, now, store>>

-----------------------------------------------------------------------------
(***************************************************************************)
(* build_service_authorization.                                            *)
(***************************************************************************)
UsableToTheEnd == cached # None /\ cached.until > now

Usable == cached # None /\ cached.until > now + Margin

\* The posts of r begin, with this token.
HandOut(r, exp) ==
  /\ pc' = [pc EXCEPT ![r] = "posting"]
  /\ held' = [held EXCEPT ![r] = [exp |-> exp, life |-> 0]]
  /\ since' = [since EXCEPT ![r] = now]
  /\ UNCHANGED <<stage, status>>

\* auth_mode disabled: no header.
SendNone(r) ==
  /\ pc[r] = "admitted"
  /\ mode = "disabled"
  /\ HandOut(r, 0)
  /\ UNCHANGED <<settings, now, store>>

\* auth_shared_secret: a token of its own for each request.
SignLocally(r) ==
  /\ pc[r] = "admitted"
  /\ mode = "shared"
  /\ HandOut(r, now + LocalLifetime)
  /\ UNCHANGED <<settings, now, store>>

\* The test before the lock.
TakeCached(r) ==
  /\ pc[r] = "admitted"
  /\ mode = "provider"
  /\ Usable
  /\ HandOut(r, cached.exp)
  /\ UNCHANGED <<settings, now, store>>

\* _request_service_token, by the holder of the lock.
Ask(r) ==
  /\ lock' = r
  /\ pc' = [pc EXCEPT ![r] = "asking"]
  /\ since' = [since EXCEPT ![r] = now]
  /\ UNCHANGED <<cached, held, stage, status>>

\* A free lock that nobody waits for is taken without giving up control.
AskAtOnce(r) ==
  /\ pc[r] = "admitted"
  /\ mode = "provider"
  /\ ~ Usable
  /\ lock = None /\ queue = <<>>
  /\ Ask(r)
  /\ UNCHANGED <<settings, now, queue>>

JoinQueue(r) ==
  /\ pc[r] = "admitted"
  /\ mode = "provider"
  /\ ~ Usable
  /\ lock # None \/ queue # <<>>
  /\ queue' = Append(queue, r)
  /\ pc' = [pc EXCEPT ![r] = "queued"]
  /\ UNCHANGED <<settings, now, cached, lock, since, held, stage, status>>

\* r is next and the lock is free.
Woken(r) ==
  /\ pc[r] = "queued"
  /\ lock = None
  /\ queue # <<>> /\ Head(queue) = r
  /\ queue' = Tail(queue)

\* The test behind the lock: another request has brought a token meanwhile.
WokenWithToken(r) ==
  /\ Woken(r)
  /\ Usable
  /\ HandOut(r, cached.exp)
  /\ UNCHANGED <<settings, now, cached, lock>>

\* Behind the lock without that test.
WokenToAskAnyway(r) == Woken(r) /\ Ask(r) /\ UNCHANGED <<settings, now>>

WokenToAsk(r) ==
  /\ Woken(r)
  /\ ~ Usable
  /\ Ask(r)
  /\ UNCHANGED <<settings, now>>

\* The authorization server issues a token; its answer is on the way.
Issue(r, life) ==
  /\ pc[r] = "asking"
  /\ pc' = [pc EXCEPT ![r] = "issued"]
  /\ held' = [held EXCEPT ![r] = [exp |-> now + life, life |-> life]]
  /\ UNCHANGED <<settings, now, store, since, stage, status>>

\* The answer is kept from when it arrives, for 60 s at least.
Keep(r) ==
  /\ pc[r] = "issued"
  /\ cached' = [exp |-> held[r].exp, until |-> now + Longer(held[r].life)]
  /\ lock' = None
  /\ HandOut(r, held[r].exp)
  /\ UNCHANGED <<settings, now, queue>>

\* A failed request that leaves the lock taken.
AskFailsLocked(r) ==
  /\ pc[r] \in {"asking", "issued"}
  /\ \E code \in {500, 502, 503} : Answer(r, "failed", code)
  /\ UNCHANGED <<settings, now, cached, lock, queue>>

\* No answer in time or a 5xx (503), a 4xx (500), a payload that is not a
\* token (502): ServiceError leaves the block and frees the lock.
AskFails(r) ==
  /\ pc[r] \in {"asking", "issued"}
  /\ \E code \in {500, 502, 503} : Answer(r, "failed", code)
  /\ lock' = None
  /\ UNCHANGED <<settings, now, cached, queue>>

-----------------------------------------------------------------------------
(***************************************************************************)
(* The posts of evaluate_credit, all with the header built at its start.   *)
(***************************************************************************)
Post(r) ==
  /\ pc[r] = "posting"
  /\ ServiceVerdict(r) = 200
  /\ \/ /\ stage[r] + 1 < Posts
        /\ stage' = [stage EXCEPT ![r] = @ + 1]
        /\ UNCHANGED <<pc, since, held, status>>
     \/ /\ stage[r] + 1 = Posts
        /\ Answer(r, "done", 200)
  /\ UNCHANGED <<settings, now, store>>

\* A 4xx is not retried and becomes the gateway's answer.
PostRefused(r) ==
  /\ pc[r] = "posting"
  /\ ServiceVerdict(r) \in {401, 403}
  /\ Answer(r, "failed", ServiceVerdict(r))
  /\ UNCHANGED <<settings, now, store>>

\* The retries of a post are used up: no answer in time, or 5xx answers.
PostFails(r) ==
  /\ pc[r] = "posting"
  /\ Answer(r, "failed", 503)
  /\ UNCHANGED <<settings, now, store>>

-----------------------------------------------------------------------------
Waiting(r, S, span) == pc[r] \in S => now < since[r] + span

\* Time passes while no time limit strikes.
Tick ==
  /\ now < MaxTime
  /\ \A r \in Requests : Waiting(r, {"asking", "issued"}, AskSpan)
  /\ \A r \in Requests : Waiting(r, {"posting"}, PostSpan)
  /\ now' = now + 1
  /\ UNCHANGED <<settings, store, request>>

Authorize(r) ==
  \/ SendNone(r)
  \/ SignLocally(r)
  \/ TakeCached(r)
  \/ AskAtOnce(r)
  \/ JoinQueue(r)
  \/ WokenWithToken(r)
  \/ WokenToAsk(r)
  \/ \E life \in Lifetimes : Issue(r, life)
  \/ Keep(r)
  \/ AskFails(r)

Proceed(r) == Authorize(r) \/ Post(r) \/ PostRefused(r) \/ PostFails(r)

Next ==
  \/ \E r \in Requests, header \in Headers : Admit(r, header) \/ Refuse(r, header)
  \/ \E r \in Requests : SigningKeysUnavailable(r)
  \/ \E r \in Requests : Proceed(r)
  \/ Tick

Spec == Init /\ [][Next]_vars

\* The event loop runs what is ready; every await of a request has a time
\* limit, except the one for the lock.
FairSpec == Spec /\ \A r \in Requests : WF_vars(Proceed(r))

-----------------------------------------------------------------------------
(***************************************************************************)
(* Properties.                                                             *)
(***************************************************************************)
Asking(r) == pc[r] \in {"asking", "issued"}

\* Every variable keeps its type.
TypeOK ==
  /\ mode \in {"disabled", "shared", "provider"}
  /\ claims \in ServiceClaims
  /\ now \in Nat
  /\ cached \in Cached \union {None}
  /\ lock \in Requests \union {None}
  /\ queue \in Seq(Requests)
  /\ pc \in [Requests -> PCs]
  /\ since \in [Requests -> Nat]
  /\ held \in [Requests -> Held \union {None}]
  /\ stage \in [Requests -> Nat]
  /\ status \in [Requests -> Statuses]

\* The authorization server is asked only for what the cache lacks: as long
\* as a request asks, no other brings a token that would still do.
NoNeedlessRefresh == \A r \in Requests : Asking(r) => ~ Usable

\* A request that was let in never fails half-way, with the first services'
\* effects done, because the token it took from the cache ran out meanwhile.
NeverExpiredMidway == \A r \in Requests : pc[r] = "failed" => status[r] # 401

\* A failed refresh gives the lock on: every request that was let in is
\* answered, whatever the authorization server does.
AdmittedIsAnswered ==
  \A r \in Requests : pc[r] = "admitted" ~> pc[r] \in {"failed", "done"}

(***************************************************************************)
(* The inductive invariant.                                                *)
(***************************************************************************)
LockIsAsker == \A r \in Requests : lock = r <=> Asking(r)

InTime ==
  \A r \in Requests :
    /\ since[r] <= now
    /\ Asking(r) => now <= since[r] + AskSpan
    /\ pc[r] = "posting" => now <= since[r] + PostSpan

\* A token on its way ends no earlier than if it had been issued at once.
IssuedLives ==
  \A r \in Requests : pc[r] = "issued" =>
    /\ held[r] \in Held
    /\ held[r].life \in Lifetimes
    /\ since[r] + held[r].life <= held[r].exp

CachedLives ==
  cached # None => cached.until + PostSpan <= cached.exp + Margin + Leeway

HandedOutLives ==
  \A r \in Requests : pc[r] = "posting" /\ mode # "disabled" =>
    /\ held[r] \in Held
    /\ since[r] + PostSpan < held[r].exp + Leeway

IInv ==
  /\ TypeOK
  /\ LockIsAsker
  /\ NoNeedlessRefresh
  /\ InTime
  /\ IssuedLives
  /\ CachedLives
  /\ HandedOutLives
  /\ NeverExpiredMidway
=============================================================================
