------------------------- MODULE ServiceTokenProofs -------------------------
(***************************************************************************)
(* Proofs about ServiceToken: a service token lives as long as the posts   *)
(* it is sent with, and the cache is refreshed only when it must be, for   *)
(* any number of concurrent requests and any settings that meet            *)
(* TimesAssumption.                                                        *)
(***************************************************************************)
EXTENDS ServiceToken, TLAPS

\* What a check answers.
LEMMA ClaimsVerdictType ==
  ASSUME NEW c
  PROVE  ClaimsVerdict(c) \in {200, 403, 502}
  BY DEF ClaimsVerdict

LEMMA VerdictType ==
  ASSUME NEW header
  PROVE  Verdict(header) \in {200, 401, 403, 502}
  BY ClaimsVerdictType DEF Verdict

\* A token that outlives its posts is refused for its claims at most.
LEMMA ServiceVerdictType ==
  ASSUME TypeOK, InTime, HandedOutLives, NEW r \in Requests, pc[r] = "posting"
  PROVE  ServiceVerdict(r) \in {200, 403, 502}
<1>1. CASE mode = "disabled"
  BY <1>1 DEF ServiceVerdict
<1>2. CASE mode # "disabled"
  <2>1. held[r] \in Held
    BY <1>2 DEF TypeOK, HandedOutLives
  <2>2. now <= since[r] + PostSpan /\ since[r] + PostSpan < held[r].exp + Leeway
    BY <1>2 DEF InTime, HandedOutLives
  <2>3. /\ now \in Nat /\ since[r] \in Nat /\ PostSpan \in Nat
        /\ held[r].exp \in Nat /\ Leeway \in Nat
    BY <2>1, TimesAssumption DEF TypeOK, Held
  <2>4. now < held[r].exp + Leeway
    BY <2>2, <2>3
  <2> QED BY <1>2, <2>4, ClaimsVerdictType DEF ServiceVerdict, Unexpired
<1> QED BY <1>1, <1>2

-----------------------------------------------------------------------------
\* The part of the invariant that speaks of one request.
RequestOK(r) ==
  /\ Asking(r) => ~ Usable
  /\ since[r] <= now
  /\ Asking(r) => now <= since[r] + AskSpan
  /\ pc[r] = "posting" => now <= since[r] + PostSpan
  /\ pc[r] = "issued" =>
        /\ held[r] \in Held
        /\ held[r].life \in Lifetimes
        /\ since[r] + held[r].life <= held[r].exp
  /\ pc[r] = "posting" /\ mode # "disabled" =>
        /\ held[r] \in Held
        /\ since[r] + PostSpan < held[r].exp + Leeway
  /\ pc[r] = "failed" => status[r] # 401

LEMMA Split ==
  IInv <=> /\ TypeOK
           /\ LockIsAsker
           /\ CachedLives
           /\ \A r \in Requests : RequestOK(r)
  BY DEF IInv, NoNeedlessRefresh, InTime, IssuedLives, HandedOutLives,
         NeverExpiredMidway, RequestOK
LEMMA SplitNext ==
  IInv' <=> /\ TypeOK'
            /\ LockIsAsker'
            /\ CachedLives'
            /\ \A r \in Requests : RequestOK(r)'
  BY DEF IInv, NoNeedlessRefresh, InTime, IssuedLives, HandedOutLives,
         NeverExpiredMidway, RequestOK

LEMMA InitIInv == Init => IInv
<1> SUFFICES ASSUME Init PROVE IInv
  OBVIOUS
<1>1. TypeOK
  BY DEF Init, TypeOK, PCs, Free, Statuses
<1>2. LockIsAsker /\ CachedLives
  BY NoneAssumption DEF Init, LockIsAsker, CachedLives, Asking
<1>3. ASSUME NEW r \in Requests PROVE RequestOK(r)
  <2>1. pc[r] = "new" /\ since[r] = 0 /\ now = 0
    BY DEF Init
  <2> QED BY <2>1 DEF RequestOK, Asking
<1> QED BY <1>1, <1>2, <1>3, Split

-----------------------------------------------------------------------------
(***************************************************************************)
(* Steps of one request.                                                   *)
(***************************************************************************)
\* What a step of r leaves of another request.
Apart(r, s) ==
  /\ pc'[s] = pc[s]
  /\ since'[s] = since[s]
  /\ held'[s] = held[s]
  /\ status'[s] = status[s]

LEMMA OthersOK ==
  ASSUME NEW r, NEW s, RequestOK(s), Apart(r, s), UNCHANGED <<settings, now>>,
         UNCHANGED cached \/ ~ Asking(s)
  PROVE  RequestOK(s)'
<1>1. Asking(s)' <=> Asking(s)
  BY DEF Apart, Asking
<1>2. Asking(s)' => ~ Usable'
  BY <1>1 DEF RequestOK, Usable
<1> QED BY <1>1, <1>2 DEF RequestOK, Apart, settings

\* A request is answered; if it held the lock it gives it on.
LEMMA AnswerStep ==
  ASSUME IInv, NEW r \in Requests,
         UNCHANGED <<settings, now, cached, queue>>,
         IF Asking(r) THEN lock' = None ELSE lock' = lock,
         \E end \in Free, code \in Statuses :
           Answer(r, end, code) /\ (end = "failed" => code # 401)
  PROVE  IInv'
<1>1. PICK end \in Free, code \in Statuses :
          Answer(r, end, code) /\ (end = "failed" => code # 401)
  OBVIOUS
<1>2. TypeOK /\ LockIsAsker /\ CachedLives /\ \A s \in Requests : RequestOK(s)
  BY Split
<1>3. /\ pc' = [pc EXCEPT ![r] = end]
      /\ status' = [status EXCEPT ![r] = code]
      /\ since' = [since EXCEPT ![r] = 0]
      /\ held' = [held EXCEPT ![r] = None]
      /\ stage' = [stage EXCEPT ![r] = 0]
  BY <1>1 DEF Answer
<1>4. /\ pc'[r] = end /\ status'[r] = code /\ since'[r] = 0
      /\ pc' \in [Requests -> PCs]
      /\ status' \in [Requests -> Statuses]
      /\ since' \in [Requests -> Nat]
      /\ held' \in [Requests -> Held \union {None}]
      /\ stage' \in [Requests -> Nat]
  BY <1>2, <1>3 DEF TypeOK, PCs
<1>5. \A s \in Requests \ {r} : Apart(r, s)
  BY <1>2, <1>3 DEF TypeOK, Apart
<1>6. TypeOK'
  BY <1>2, <1>4 DEF TypeOK, settings
<1>7. LockIsAsker'
  <2>1. ~ Asking(r)'
    BY <1>4, <1>1 DEF Asking, Free
  <2>2. \A s \in Requests \ {r} : Asking(s)' <=> Asking(s)
    BY <1>5 DEF Apart, Asking
  <2>3. lock' # r
    BY <1>2, NoneAssumption DEF LockIsAsker
  <2>4. \A s \in Requests \ {r} : lock' = s <=> lock = s
    BY <1>2, NoneAssumption DEF LockIsAsker
  <2> QED BY <2>1, <2>2, <2>3, <2>4, <1>2 DEF LockIsAsker
<1>8. CachedLives'
  BY <1>2 DEF CachedLives
<1>9. RequestOK(r)'
  <2>1. now' \in Nat
    BY <1>2 DEF TypeOK
  <2> QED BY <1>1, <1>4, <2>1 DEF RequestOK, Asking, Free
<1>10. \A s \in Requests \ {r} : RequestOK(s)'
  BY <1>2, <1>5, OthersOK
<1>11. \A s \in Requests : RequestOK(s)'
  BY <1>9, <1>10
<1>12. TypeOK' /\ LockIsAsker' /\ CachedLives'
  BY <1>6, <1>7, <1>8
<1> QED BY <1>11, <1>12, SplitNext

\* A request of r to the authorization server begins.
LEMMA AskStep ==
  ASSUME IInv, NEW r \in Requests, ~ Asking(r), lock = None, ~ Usable, Ask(r),
         UNCHANGED <<settings, now>>, queue' \in Seq(Requests)
  PROVE  IInv'
<1>2. TypeOK /\ LockIsAsker /\ CachedLives /\ \A s \in Requests : RequestOK(s)
  BY Split
<1>3. /\ lock' = r
      /\ pc' = [pc EXCEPT ![r] = "asking"]
      /\ since' = [since EXCEPT ![r] = now]
      /\ UNCHANGED <<cached, held, stage, status>>
  BY DEF Ask
<1>4. /\ pc'[r] = "asking" /\ since'[r] = now
      /\ pc' \in [Requests -> PCs]
      /\ since' \in [Requests -> Nat]
  BY <1>2, <1>3 DEF TypeOK, PCs
<1>5. \A s \in Requests \ {r} : Apart(r, s)
  BY <1>2, <1>3 DEF TypeOK, Apart
<1>6. TypeOK'
  BY <1>2, <1>3, <1>4 DEF TypeOK, settings
<1>7. LockIsAsker'
  <2>1. Asking(r)'
    BY <1>4 DEF Asking
  <2>2. \A s \in Requests \ {r} : ~ Asking(s)'
    BY <1>2, <1>5, NoneAssumption DEF Apart, Asking, LockIsAsker
  <2> QED BY <2>1, <2>2, <1>3 DEF LockIsAsker
<1>8. CachedLives'
  BY <1>2, <1>3 DEF CachedLives
<1>9. RequestOK(r)'
  <2>1. now' = now /\ now \in Nat /\ AskSpan \in Nat
    BY <1>2, TimesAssumption DEF TypeOK
  <2>2. ~ Usable'
    BY <1>3 DEF Usable
  <2> QED BY <1>4, <2>1, <2>2 DEF RequestOK, Asking
<1>10. \A s \in Requests \ {r} : RequestOK(s)'
  BY <1>2, <1>3, <1>5, OthersOK
<1>11. \A s \in Requests : RequestOK(s)'
  BY <1>9, <1>10
<1>12. TypeOK' /\ LockIsAsker' /\ CachedLives'
  BY <1>6, <1>7, <1>8
<1> QED BY <1>11, <1>12, SplitNext

\* The posts of r begin with a token that outlives them; if r held the lock
\* it has kept an answer and gives the lock on.
LEMMA HandOutStep ==
  ASSUME IInv, NEW r \in Requests, UNCHANGED <<settings, now>>,
         queue' \in Seq(Requests),
         IF Asking(r) THEN lock' = None ELSE lock' = lock,
         UNCHANGED cached \/ Asking(r),
         cached' \in Cached \union {None}, CachedLives',
         \E exp \in Nat : /\ HandOut(r, exp)
                          /\ mode # "disabled" => now + PostSpan < exp + Leeway
  PROVE  IInv'
<1>1. PICK exp \in Nat : /\ HandOut(r, exp)
                         /\ mode # "disabled" => now + PostSpan < exp + Leeway
  OBVIOUS
<1>2. TypeOK /\ LockIsAsker /\ CachedLives /\ \A s \in Requests : RequestOK(s)
  BY Split
<1>3. /\ pc' = [pc EXCEPT ![r] = "posting"]
      /\ held' = [held EXCEPT ![r] = [exp |-> exp, life |-> 0]]
      /\ since' = [since EXCEPT ![r] = now]
      /\ UNCHANGED <<stage, status>>
  BY <1>1 DEF HandOut
<1>4. /\ pc'[r] = "posting" /\ since'[r] = now
      /\ held'[r] = [exp |-> exp, life |-> 0]
      /\ pc' \in [Requests -> PCs]
      /\ since' \in [Requests -> Nat]
      /\ held' \in [Requests -> Held \union {None}]
  BY <1>2, <1>3 DEF TypeOK, PCs, Held
<1>5. \A s \in Requests \ {r} : Apart(r, s)
  BY <1>2, <1>3 DEF TypeOK, Apart
<1>6. TypeOK'
  BY <1>2, <1>3, <1>4 DEF TypeOK, settings
<1>7. LockIsAsker'
  <2>1. ~ Asking(r)'
    BY <1>4 DEF Asking
  <2>2. \A s \in Requests \ {r} : Asking(s)' <=> Asking(s)
    BY <1>5 DEF Apart, Asking
  <2>3. lock' # r
    BY <1>2, NoneAssumption DEF LockIsAsker
  <2>4. \A s \in Requests \ {r} : lock' = s <=> lock = s
    BY <1>2, NoneAssumption DEF LockIsAsker
  <2> QED BY <2>1, <2>2, <2>3, <2>4, <1>2 DEF LockIsAsker
<1>9. RequestOK(r)'
  <2>1. now' = now /\ now \in Nat /\ PostSpan \in Nat /\ mode' = mode
    BY <1>2, TimesAssumption DEF TypeOK, settings
  <2>2. held'[r].exp = exp /\ held'[r] \in Held
    BY <1>4 DEF Held
  <2> QED BY <1>1, <1>4, <2>1, <2>2 DEF RequestOK, Asking
<1>10. \A s \in Requests \ {r} : RequestOK(s)'
  <2>1. ASSUME NEW s \in Requests \ {r} PROVE UNCHANGED cached \/ ~ Asking(s)
    BY <1>2 DEF LockIsAsker
  <2> QED BY <2>1, <1>2, <1>5, OthersOK
<1>11. \A s \in Requests : RequestOK(s)'
  BY <1>9, <1>10
<1>12. TypeOK' /\ LockIsAsker' /\ CachedLives'
  BY <1>6, <1>7
<1> QED BY <1>11, <1>12, SplitNext

-----------------------------------------------------------------------------
(***************************************************************************)
(* One lemma per kind of action.                                           *)
(***************************************************************************)
\* A step of r that only moves its own pc, status, stage or held token.
LEMMA OwnStep ==
  ASSUME IInv, NEW r \in Requests, TypeOK',
         UNCHANGED <<settings, now, cached, lock, since>>,
         Asking(r)' <=> Asking(r), RequestOK(r)',
         \A s \in Requests \ {r} : Apart(r, s)
  PROVE  IInv'
<1>1. TypeOK /\ LockIsAsker /\ CachedLives /\ \A s \in Requests : RequestOK(s)
  BY Split
<1>2. LockIsAsker'
  <2>1. \A s \in Requests : Asking(s)' <=> Asking(s)
    BY DEF Apart, Asking
  <2> QED BY <1>1, <2>1 DEF LockIsAsker
<1>3. CachedLives'
  BY <1>1 DEF CachedLives
<1>4. \A s \in Requests \ {r} : RequestOK(s)'
  BY <1>1, OthersOK
<1>5. \A s \in Requests : RequestOK(s)'
  BY <1>4
<1> QED BY <1>2, <1>3, <1>5, SplitNext

LEMMA FrontDoor ==
  ASSUME IInv, NEW r \in Requests, NEW header \in Headers,
         Admit(r, header) \/ Refuse(r, header)
  PROVE  IInv'
<1>1. TypeOK /\ RequestOK(r)
  BY Split
<1>2. pc[r] \in Free => ~ Asking(r)
  BY DEF Free, Asking
<1>3. CASE Admit(r, header)
  <2>1. /\ pc' = [pc EXCEPT ![r] = "admitted"]
        /\ status' = [status EXCEPT ![r] = 0]
        /\ UNCHANGED <<settings, now, store, since, held, stage>>
    BY <1>3 DEF Admit
  <2>2. pc'[r] = "admitted" /\ TypeOK'
    BY <1>1, <2>1 DEF TypeOK, PCs, Statuses, settings, store
  <2>3. \A s \in Requests \ {r} : Apart(r, s)
    BY <1>1, <2>1 DEF TypeOK, Apart
  <2>4. Asking(r)' <=> Asking(r)
    BY <1>2, <1>3, <2>2 DEF Admit, Asking
  <2>5. RequestOK(r)'
    BY <1>1, <2>1, <2>2 DEF RequestOK, Asking
  <2> QED BY <2>1, <2>2, <2>3, <2>4, <2>5, OwnStep DEF store
<1>4. CASE Refuse(r, header)
  <2>1. "refused" \in Free /\ Verdict(header) \in Statuses
    BY VerdictType DEF Free, Statuses
  <2>2. \E end \in Free, code \in Statuses :
           Answer(r, end, code) /\ (end = "failed" => code # 401)
    BY <1>4, <2>1 DEF Refuse
  <2> QED BY <1>2, <1>4, <2>2, AnswerStep DEF Refuse, store
<1> QED BY <1>3, <1>4

\* Without an authorization server the token is new, or none is needed.
LEMMA LocalTokens ==
  ASSUME IInv, NEW r \in Requests, SendNone(r) \/ SignLocally(r)
  PROVE  IInv'
<1>1. TypeOK /\ CachedLives
  BY Split
<1>2. /\ ~ Asking(r)
      /\ UNCHANGED <<settings, now, store>>
      /\ queue' \in Seq(Requests)
      /\ cached' \in Cached \union {None}
      /\ CachedLives'
  BY <1>1 DEF SendNone, SignLocally, Asking, store, TypeOK, CachedLives
<1>3. \E exp \in Nat : /\ HandOut(r, exp)
                       /\ mode # "disabled" => now + PostSpan < exp + Leeway
  <2>1. CASE SendNone(r)
    BY <2>1 DEF SendNone
  <2>2. CASE SignLocally(r)
    <3>1. now + LocalLifetime \in Nat
      BY <1>1, TimesAssumption DEF TypeOK
    <3>2. now + PostSpan < (now + LocalLifetime) + Leeway
      BY <1>1, TimesAssumption DEF TypeOK
    <3> QED BY <2>2, <3>1, <3>2 DEF SignLocally
  <2> QED BY <2>1, <2>2
<1> QED BY <1>2, <1>3, HandOutStep DEF store

\* A token that may still be used outlives the posts it is sent with.
LEMMA CachedOutlivesPosts ==
  ASSUME TypeOK, CachedLives, Usable
  PROVE  cached.exp \in Nat /\ now + PostSpan < cached.exp + Leeway
<1>1. cached \in Cached /\ now + Margin < cached.until
  BY DEF TypeOK, Usable
<1>2. cached.until + PostSpan <= cached.exp + Margin + Leeway
  BY DEF CachedLives, Usable
<1>3. /\ cached.exp \in Nat /\ cached.until \in Nat /\ now \in Nat
      /\ Margin \in Nat /\ PostSpan \in Nat /\ Leeway \in Nat
  BY <1>1, TimesAssumption DEF Cached, TypeOK
<1> QED BY <1>1, <1>2, <1>3

LEMMA CachedTokens ==
  ASSUME IInv, NEW r \in Requests, TakeCached(r) \/ WokenWithToken(r)
  PROVE  IInv'
<1>1. TypeOK /\ CachedLives
  BY Split
<1>2. /\ ~ Asking(r)
      /\ UNCHANGED <<settings, now, cached, lock>>
      /\ HandOut(r, cached.exp)
      /\ Usable
  BY DEF TakeCached, WokenWithToken, Woken, Asking, store
<1>3. queue' \in Seq(Requests)
  <2>1. CASE TakeCached(r)
    BY <1>1, <2>1 DEF TakeCached, store, TypeOK
  <2>2. CASE WokenWithToken(r)
    BY <1>1, <2>2 DEF WokenWithToken, Woken, TypeOK
  <2> QED BY <2>1, <2>2
<1>4. \E exp \in Nat : /\ HandOut(r, exp)
                       /\ mode # "disabled" => now + PostSpan < exp + Leeway
  BY <1>1, <1>2, CachedOutlivesPosts
<1>5. cached' \in Cached \union {None} /\ CachedLives'
  BY <1>1, <1>2 DEF TypeOK, CachedLives
<1> QED BY <1>2, <1>3, <1>4, <1>5, HandOutStep

LEMMA Asks ==
  ASSUME IInv, NEW r \in Requests, AskAtOnce(r) \/ WokenToAsk(r)
  PROVE  IInv'
<1>1. TypeOK
  BY Split
<1>2. ~ Asking(r) /\ lock = None /\ ~ Usable /\ Ask(r) /\ UNCHANGED <<settings, now>>
  BY DEF AskAtOnce, WokenToAsk, Woken, Asking
<1>3. queue' \in Seq(Requests)
  <2>1. CASE AskAtOnce(r)
    BY <1>1, <2>1 DEF AskAtOnce, TypeOK
  <2>2. CASE WokenToAsk(r)
    BY <1>1, <2>2 DEF WokenToAsk, Woken, TypeOK
  <2> QED BY <2>1, <2>2
<1> QED BY <1>2, <1>3, AskStep

LEMMA Queues ==
  ASSUME IInv, NEW r \in Requests, JoinQueue(r)
  PROVE  IInv'
<1>1. TypeOK /\ LockIsAsker /\ CachedLives /\ \A s \in Requests : RequestOK(s)
  BY Split
<1>2. /\ pc' = [pc EXCEPT ![r] = "queued"]
      /\ queue' = Append(queue, r)
      /\ UNCHANGED <<settings, now, cached, lock, since, held, stage, status>>
      /\ pc[r] = "admitted"
  BY DEF JoinQueue
<1>3. pc'[r] = "queued" /\ TypeOK'
  BY <1>1, <1>2 DEF TypeOK, PCs, settings
<1>4. \A s \in Requests \ {r} : Apart(r, s)
  BY <1>1, <1>2 DEF TypeOK, Apart
<1>5. Asking(r)' <=> Asking(r)
  BY <1>2, <1>3 DEF Asking
<1>6. RequestOK(r)'
  BY <1>1, <1>2, <1>3 DEF RequestOK, Asking
<1> QED BY <1>2, <1>3, <1>4, <1>5, <1>6, OwnStep

LEMMA Issues ==
  ASSUME IInv, NEW r \in Requests, NEW life \in Lifetimes, Issue(r, life)
  PROVE  IInv'
<1>1. TypeOK /\ LockIsAsker /\ CachedLives /\ RequestOK(r)
  BY Split
<1>2. /\ pc[r] = "asking"
      /\ pc' = [pc EXCEPT ![r] = "issued"]
      /\ held' = [held EXCEPT ![r] = [exp |-> now + life, life |-> life]]
      /\ UNCHANGED <<settings, now, cached, lock, queue, since, stage, status>>
  BY DEF Issue, store
<1>3. life \in Nat /\ now \in Nat /\ since[r] \in Nat /\ now + life \in Nat
  BY <1>1, TimesAssumption DEF TypeOK
<1>4. /\ pc'[r] = "issued"
      /\ held'[r] = [exp |-> now + life, life |-> life]
      /\ held'[r] \in Held
      /\ held' \in [Requests -> Held \union {None}]
      /\ pc' \in [Requests -> PCs]
  BY <1>1, <1>2, <1>3 DEF TypeOK, PCs, Held
<1>5. TypeOK'
  BY <1>1, <1>2, <1>4 DEF TypeOK, settings
<1>6. \A s \in Requests \ {r} : Apart(r, s)
  BY <1>1, <1>2 DEF TypeOK, Apart
<1>7. Asking(r)' <=> Asking(r)
  BY <1>2, <1>4 DEF Asking
<1>8. RequestOK(r)'
  <2>1. ~ Usable' /\ since'[r] = since[r] /\ now' = now
    BY <1>1, <1>2 DEF RequestOK, Asking, Usable
  <2>2. since[r] <= now /\ now <= since[r] + AskSpan
    BY <1>1, <1>2 DEF RequestOK, Asking
  <2>3. since[r] + life <= now + life
    BY <2>2, <1>3
  <2> QED BY <2>1, <2>2, <2>3, <1>4 DEF RequestOK
<1> QED BY <1>2, <1>5, <1>6, <1>7, <1>8, OwnStep

\* An answer that arrives in time is good for the posts of its request, and
\* for those of every request that finds it in the cache.
LEMMA Keeps ==
  ASSUME IInv, NEW r \in Requests, Keep(r)
  PROVE  IInv'
<1>1. TypeOK /\ RequestOK(r)
  BY Split
<1>2. /\ pc[r] = "issued"
      /\ cached' = [exp |-> held[r].exp, until |-> now + Longer(held[r].life)]
      /\ lock' = None
      /\ HandOut(r, held[r].exp)
      /\ UNCHANGED <<settings, now, queue>>
  BY DEF Keep
<1> DEFINE life == held[r].life  exp == held[r].exp
<1>3. /\ life \in Lifetimes
      /\ since[r] + life <= exp
      /\ now <= since[r] + AskSpan
      /\ held[r] \in Held
  BY <1>1, <1>2 DEF RequestOK, Asking
<1>4. /\ life \in Nat /\ exp \in Nat /\ now \in Nat /\ since[r] \in Nat
      /\ AskSpan \in Nat /\ PostSpan \in Nat /\ Margin \in Nat /\ Floor \in Nat
      /\ Leeway \in Nat /\ Margin < Floor
  BY <1>1, <1>3, TimesAssumption DEF TypeOK, Held
<1>5. Longer(life) \in Nat /\ Floor <= Longer(life)
  BY <1>4 DEF Longer
<1>6. AskSpan + PostSpan + Longer(life) <= life + Margin + Leeway
  BY <1>3, TimesAssumption
<1> HIDE DEF life, exp
<1>7. now + Longer(life) + PostSpan <= exp + Margin + Leeway
  BY <1>3, <1>4, <1>5, <1>6
<1>8. now + PostSpan < exp + Leeway
  BY <1>4, <1>5, <1>7
<1>9. now + Longer(life) \in Nat
  BY <1>4, <1>5
<1>10. /\ cached' = [exp |-> exp, until |-> now + Longer(life)]
       /\ cached' \in Cached
       /\ HandOut(r, exp)
  BY <1>2, <1>4, <1>9 DEF Cached, life, exp
<1>11. CachedLives'
  BY <1>7, <1>10 DEF CachedLives
<1>12. \E e \in Nat : /\ HandOut(r, e)
                      /\ mode # "disabled" => now + PostSpan < e + Leeway
  BY <1>4, <1>8, <1>10
<1>13. Asking(r) /\ queue' \in Seq(Requests)
  BY <1>1, <1>2 DEF Asking, TypeOK
<1> QED BY <1>2, <1>10, <1>11, <1>12, <1>13, HandOutStep

LEMMA Fails ==
  ASSUME IInv, NEW r \in Requests, AskFails(r) \/ PostRefused(r) \/ PostFails(r)
  PROVE  IInv'
<1>1. "failed" \in Free /\ {403, 500, 502, 503} \subseteq Statuses
  BY DEF Free, Statuses
<1>2. CASE AskFails(r)
  <2>1. \E end \in Free, code \in Statuses :
           Answer(r, end, code) /\ (end = "failed" => code # 401)
    BY <1>1, <1>2 DEF AskFails
  <2>2. Asking(r) /\ lock' = None /\ UNCHANGED <<settings, now, cached, queue>>
    BY <1>2 DEF AskFails, Asking
  <2> QED BY <2>1, <2>2, AnswerStep
<1>3. CASE PostRefused(r)
  <2>1. ServiceVerdict(r) \in {403, 502}
    BY <1>3, ServiceVerdictType DEF PostRefused, IInv
  <2>2. \E end \in Free, code \in Statuses :
           Answer(r, end, code) /\ (end = "failed" => code # 401)
    BY <1>1, <1>3, <2>1 DEF PostRefused
  <2> QED BY <1>3, <2>2, AnswerStep DEF PostRefused, Asking, store
<1>4. CASE PostFails(r)
  <2>1. \E end \in Free, code \in Statuses :
           Answer(r, end, code) /\ (end = "failed" => code # 401)
    BY <1>1, <1>4 DEF PostFails
  <2> QED BY <1>4, <2>1, AnswerStep DEF PostFails, Asking, store
<1> QED BY <1>2, <1>3, <1>4

LEMMA Posting ==
  ASSUME IInv, NEW r \in Requests, Post(r)
  PROVE  IInv'
<1>1. TypeOK /\ RequestOK(r)
  BY Split
<1>2. pc[r] = "posting" /\ UNCHANGED <<settings, now, store>>
  BY DEF Post
<1>3. CASE /\ stage' = [stage EXCEPT ![r] = @ + 1]
           /\ UNCHANGED <<pc, since, held, status>>
  <2>1. TypeOK'
    BY <1>1, <1>2, <1>3 DEF TypeOK, settings, store
  <2>2. \A s \in Requests : Apart(r, s)
    BY <1>3 DEF Apart
  <2>3. (Asking(r)' <=> Asking(r)) /\ RequestOK(r)'
    BY <1>1, <1>2, <1>3 DEF Asking, RequestOK, settings
  <2> QED BY <1>2, <1>3, <2>1, <2>2, <2>3, OwnStep DEF store
<1>4. CASE Answer(r, "done", 200)
  <2>1. \E end \in Free, code \in Statuses :
           Answer(r, end, code) /\ (end = "failed" => code # 401)
    BY <1>4 DEF Free, Statuses
  <2> QED BY <1>2, <2>1, AnswerStep DEF Asking, store
<1> QED BY <1>3, <1>4 DEF Post

\* Time stops before a time limit is passed.
LEMMA Ticks == IInv /\ Tick => IInv'
<1> SUFFICES ASSUME IInv, Tick PROVE IInv'
  OBVIOUS
<1>1. TypeOK /\ LockIsAsker /\ CachedLives /\ \A s \in Requests : RequestOK(s)
  BY Split
<1>2. now \in Nat /\ now' = now + 1 /\ UNCHANGED <<settings, store, request>>
  BY <1>1 DEF TypeOK, Tick
<1>3. TypeOK' /\ LockIsAsker' /\ CachedLives'
  BY <1>1, <1>2 DEF TypeOK, LockIsAsker, CachedLives, Asking, settings, store, request
<1>4. ASSUME NEW r \in Requests PROVE RequestOK(r)'
  <2>1. /\ since[r] \in Nat /\ since'[r] = since[r]
        /\ AskSpan \in Nat /\ PostSpan \in Nat /\ Margin \in Nat
    BY <1>1, <1>2, TimesAssumption DEF TypeOK, request
  <2>2. RequestOK(r) /\ (Asking(r)' <=> Asking(r))
    BY <1>1, <1>2 DEF Asking, request
  <2>3. ~ Usable => ~ Usable'
    <3>1. cached # None => cached.until \in Nat
      BY <1>1 DEF TypeOK, Cached
    <3> QED BY <1>2, <2>1, <3>1 DEF Usable, store
  <2>4. Asking(r) => now' <= since[r] + AskSpan
    BY <1>2, <2>1 DEF Tick, Waiting, Asking
  <2>5. pc[r] = "posting" => now' <= since[r] + PostSpan
    BY <1>2, <2>1 DEF Tick, Waiting
  <2>6. since[r] <= now'
    BY <1>2, <2>1, <2>2 DEF RequestOK
  <2> QED BY <1>2, <2>1, <2>2, <2>3, <2>4, <2>5, <2>6
          DEF RequestOK, settings, request
<1> QED BY <1>3, <1>4, SplitNext

-----------------------------------------------------------------------------
\* IInv is inductive: every step of build_service_authorization and of the
\* posts keeps what the token cache and its lock rest on.
THEOREM IInvHolds == Spec => []IInv
<1>1. ASSUME IInv, [Next]_vars PROVE IInv'
  <2>1. CASE UNCHANGED vars
    <3>1. UNCHANGED <<settings, now, store, request>>
      BY <2>1 DEF vars
    <3>2. TypeOK' /\ LockIsAsker' /\ CachedLives'
      BY <3>1, <1>1, Split
         DEF TypeOK, LockIsAsker, CachedLives, Asking, settings, store, request
    <3>3. \A r \in Requests : RequestOK(r)'
      BY <3>1, <1>1, Split
         DEF RequestOK, Asking, Usable, settings, store, request
    <3> QED BY <3>2, <3>3, SplitNext
  <2>2. CASE \E r \in Requests, header \in Headers :
                Admit(r, header) \/ Refuse(r, header)
    BY <1>1, <2>2, FrontDoor
  <2>3. CASE \E r \in Requests : SigningKeysUnavailable(r)
    <3>1. PICK r \in Requests : SigningKeysUnavailable(r)
      BY <2>3
    <3>2. "refused" \in Free /\ 503 \in Statuses /\ ~ Asking(r)
      BY <3>1 DEF SigningKeysUnavailable, Free, Statuses, Asking
    <3>3. \E end \in Free, code \in Statuses :
             Answer(r, end, code) /\ (end = "failed" => code # 401)
      BY <3>1, <3>2 DEF SigningKeysUnavailable
    <3> QED BY <1>1, <3>1, <3>2, <3>3, AnswerStep DEF SigningKeysUnavailable, store
  <2>4. CASE \E r \in Requests : Proceed(r)
    <3>1. PICK r \in Requests : Proceed(r)
      BY <2>4
    <3>2. CASE SendNone(r) \/ SignLocally(r)
      BY <1>1, <3>2, LocalTokens
    <3>3. CASE TakeCached(r) \/ WokenWithToken(r)
      BY <1>1, <3>3, CachedTokens
    <3>4. CASE AskAtOnce(r) \/ WokenToAsk(r)
      BY <1>1, <3>4, Asks
    <3>5. CASE JoinQueue(r)
      BY <1>1, <3>5, Queues
    <3>6. CASE \E life \in Lifetimes : Issue(r, life)
      BY <1>1, <3>6, Issues
    <3>7. CASE Keep(r)
      BY <1>1, <3>7, Keeps
    <3>8. CASE AskFails(r) \/ PostRefused(r) \/ PostFails(r)
      BY <1>1, <3>8, Fails
    <3>9. CASE Post(r)
      BY <1>1, <3>9, Posting
    <3> QED BY <3>1, <3>2, <3>3, <3>4, <3>5, <3>6, <3>7, <3>8, <3>9
            DEF Proceed, Authorize
  <2>5. CASE Tick
    BY <1>1, <2>5, Ticks
  <2> QED BY <1>1, <2>1, <2>2, <2>3, <2>4, <2>5 DEF Next
<1> QED BY <1>1, InitIInv, PTL DEF Spec

\* As long as a request asks the authorization server, the cache of the
\* process holds no token that would still do.
THEOREM NoNeedlessRefreshHolds == Spec => []NoNeedlessRefresh
<1>1. IInv => NoNeedlessRefresh
  BY DEF IInv
<1> QED BY <1>1, IInvHolds, PTL

\* No request that build_service_authorization gave a token fails half-way
\* because the token has ended.
THEOREM NeverExpiredMidwayHolds == Spec => []NeverExpiredMidway
<1>1. IInv => NeverExpiredMidway
  BY DEF IInv
<1> QED BY <1>1, IInvHolds, PTL

-----------------------------------------------------------------------------
(***************************************************************************)
(* Why nobody waits for the lock for ever: the safety that the liveness of *)
(* AdmittedIsAnswered rests on.                                            *)
(***************************************************************************)
\* The lock's queue holds the requests that wait, each once.
QueueIsWaiters ==
  /\ \A r \in Requests : pc[r] = "queued" <=> \E i \in 1 .. Len(queue) : queue[i] = r
  /\ \A i, j \in 1 .. Len(queue) : queue[i] = queue[j] => i = j

\* A request that waits is in the queue, behind others that wait, and a lock
\* that is taken has a holder whose await of the authorization server ends.
WaitersAreServed ==
  \A r \in Requests : pc[r] = "queued" =>
    /\ \E i \in 1 .. Len(queue) :
         queue[i] = r /\ \A j \in 1 .. i - 1 : pc[queue[j]] = "queued" /\ queue[j] # r
    /\ lock = None \/ \E s \in Requests : lock = s /\ Asking(s) /\ now <= since[s] + AskSpan

\* One request at a time asks the authorization server.
OneRefresh == \A r, s \in Requests : Asking(r) /\ Asking(s) => r = s

\* A step that lets nobody begin or end to wait.
LEMMA QueueKept ==
  ASSUME QueueIsWaiters, UNCHANGED queue,
         \A r \in Requests : pc'[r] = "queued" <=> pc[r] = "queued"
  PROVE  QueueIsWaiters'
  BY DEF QueueIsWaiters

\* A step of r that neither begins nor ends a wait.
LEMMA NoWait ==
  ASSUME TypeOK, QueueIsWaiters, NEW r \in Requests, pc[r] # "queued",
         NEW place, place # "queued", pc' = [pc EXCEPT ![r] = place], UNCHANGED queue
  PROVE  QueueIsWaiters'
<1>1. \A s \in Requests : pc'[s] = IF s = r THEN place ELSE pc[s]
  BY DEF TypeOK
<1> QED BY <1>1, QueueKept

LEMMA JoinWaits ==
  ASSUME TypeOK, QueueIsWaiters, NEW r \in Requests, JoinQueue(r)
  PROVE  QueueIsWaiters'
<1> DEFINE n == Len(queue)
<1>1. queue \in Seq(Requests) /\ n \in Nat
  BY DEF TypeOK
<1>2. /\ Len(queue') = n + 1
      /\ queue'[n + 1] = r
      /\ \A i \in 1 .. n : queue'[i] = queue[i]
  BY <1>1 DEF JoinQueue
<1>3. \A s \in Requests : pc'[s] = IF s = r THEN "queued" ELSE pc[s]
  BY DEF JoinQueue, TypeOK
<1>4. \A i \in 1 .. n : queue[i] # r
  BY DEF JoinQueue, QueueIsWaiters
<1>5. ASSUME NEW s \in Requests
      PROVE  pc'[s] = "queued" <=> \E i \in 1 .. n + 1 : queue'[i] = s
  <2>1. CASE s = r
    BY <1>1, <1>2, <1>3, <2>1
  <2>2. CASE s # r
    <3>1. pc'[s] = "queued" <=> \E i \in 1 .. n : queue[i] = s
      BY <1>3, <2>2 DEF QueueIsWaiters
    <3>2. (\E i \in 1 .. n : queue[i] = s) <=> \E i \in 1 .. n + 1 : queue'[i] = s
      BY <1>1, <1>2, <2>2
    <3> QED BY <3>1, <3>2
  <2> QED BY <2>1, <2>2
<1>6. ASSUME NEW i \in 1 .. n + 1, NEW j \in 1 .. n + 1, queue'[i] = queue'[j]
      PROVE  i = j
  <2>1. CASE i \in 1 .. n /\ j \in 1 .. n
    BY <1>2, <1>6, <2>1 DEF QueueIsWaiters
  <2>2. CASE i = n + 1 \/ j = n + 1
    BY <1>1, <1>2, <1>4, <1>6, <2>2
  <2> QED BY <1>1, <2>1, <2>2
<1> QED BY <1>2, <1>5, <1>6 DEF QueueIsWaiters

LEMMA WokenLeaves ==
  ASSUME TypeOK, QueueIsWaiters, NEW r \in Requests, Woken(r),
         NEW place, place # "queued", pc' = [pc EXCEPT ![r] = place]
  PROVE  QueueIsWaiters'
<1> DEFINE n == Len(queue)
<1>1. queue \in Seq(Requests) /\ n \in Nat \ {0} /\ queue[1] = r
  BY DEF TypeOK, Woken
<1>2. /\ Len(queue') = n - 1
      /\ \A i \in 1 .. n - 1 : queue'[i] = queue[i + 1]
  BY <1>1 DEF Woken
<1>3. \A s \in Requests : pc'[s] = IF s = r THEN place ELSE pc[s]
  BY DEF TypeOK
<1>4. \A i \in 2 .. n : queue[i] # r
  BY <1>1 DEF QueueIsWaiters
<1>5. ASSUME NEW s \in Requests
      PROVE  pc'[s] = "queued" <=> \E i \in 1 .. n - 1 : queue'[i] = s
  <2>1. CASE s = r
    <3>1. ASSUME NEW i \in 1 .. n - 1 PROVE queue'[i] # r
      <4>1. i + 1 \in 2 .. n
        BY <1>1
      <4> QED BY <1>2, <1>4, <4>1
    <3> QED BY <1>3, <2>1, <3>1
  <2>2. CASE s # r
    <3>1. ASSUME pc'[s] = "queued"
          PROVE  \E i \in 1 .. n - 1 : queue'[i] = s
      <4>1. PICK j \in 1 .. n : queue[j] = s
        BY <1>3, <2>2, <3>1 DEF QueueIsWaiters
      <4>2. j # 1 /\ j - 1 \in 1 .. n - 1 /\ (j - 1) + 1 = j
        BY <1>1, <2>2, <4>1
      <4> QED BY <1>2, <4>1, <4>2
    <3>2. ASSUME NEW i \in 1 .. n - 1, queue'[i] = s
          PROVE  pc'[s] = "queued"
      <4>1. i + 1 \in 1 .. n
        BY <1>1
      <4> QED BY <1>2, <1>3, <2>2, <3>2, <4>1 DEF QueueIsWaiters
    <3> QED BY <3>1, <3>2
  <2> QED BY <2>1, <2>2
<1>6. ASSUME NEW i \in 1 .. n - 1, NEW j \in 1 .. n - 1, queue'[i] = queue'[j]
      PROVE  i = j
  <2>1. i + 1 \in 1 .. n /\ j + 1 \in 1 .. n /\ queue[i + 1] = queue[j + 1]
    BY <1>1, <1>2, <1>6
  <2>2. i + 1 = j + 1
    BY <2>1 DEF QueueIsWaiters
  <2> QED BY <2>2
<1> QED BY <1>2, <1>5, <1>6 DEF QueueIsWaiters

LEMMA QueueStep == IInv /\ QueueIsWaiters /\ [Next]_vars => QueueIsWaiters'
<1> SUFFICES ASSUME IInv, QueueIsWaiters, [Next]_vars PROVE QueueIsWaiters'
  OBVIOUS
<1>0. TypeOK
  BY DEF IInv
<1>1. CASE UNCHANGED vars
  BY <1>1, QueueKept DEF vars, store, request
<1>2. CASE \E r \in Requests, header \in Headers : Admit(r, header) \/ Refuse(r, header)
  <2>1. PICK r \in Requests, header \in Headers : Admit(r, header) \/ Refuse(r, header)
    BY <1>2
  <2>2. pc[r] # "queued" /\ UNCHANGED queue
    BY <2>1 DEF Admit, Refuse, Free, store
  <2>3. pc' = [pc EXCEPT ![r] = "admitted"] \/ pc' = [pc EXCEPT ![r] = "refused"]
    BY <2>1 DEF Admit, Refuse, Answer
  <2> QED BY <1>0, <2>2, <2>3, NoWait
<1>3. CASE \E r \in Requests : SigningKeysUnavailable(r)
  <2>1. PICK r \in Requests : SigningKeysUnavailable(r)
    BY <1>3
  <2>2. pc[r] # "queued" /\ UNCHANGED queue /\ pc' = [pc EXCEPT ![r] = "refused"]
    BY <2>1 DEF SigningKeysUnavailable, Answer, Free, store
  <2> QED BY <1>0, <2>2, NoWait
<1>4. CASE \E r \in Requests : Proceed(r)
  <2>1. PICK r \in Requests : Proceed(r)
    BY <1>4
  <2>2. CASE SendNone(r) \/ SignLocally(r) \/ TakeCached(r)
    <3>1. pc[r] # "queued" /\ UNCHANGED queue /\ pc' = [pc EXCEPT ![r] = "posting"]
      BY <2>2 DEF SendNone, SignLocally, TakeCached, HandOut, store
    <3> QED BY <1>0, <3>1, NoWait
  <2>3. CASE AskAtOnce(r)
    <3>1. pc[r] # "queued" /\ UNCHANGED queue /\ pc' = [pc EXCEPT ![r] = "asking"]
      BY <2>3 DEF AskAtOnce, Ask
    <3> QED BY <1>0, <3>1, NoWait
  <2>4. CASE JoinQueue(r)
    BY <1>0, <2>4, JoinWaits
  <2>5. CASE WokenWithToken(r)
    BY <1>0, <2>5, WokenLeaves DEF WokenWithToken, HandOut
  <2>6. CASE WokenToAsk(r)
    BY <1>0, <2>6, WokenLeaves DEF WokenToAsk, Ask
  <2>7. CASE \E life \in Lifetimes : Issue(r, life)
    <3>1. pc[r] # "queued" /\ UNCHANGED queue /\ pc' = [pc EXCEPT ![r] = "issued"]
      BY <2>7 DEF Issue, store
    <3> QED BY <1>0, <3>1, NoWait
  <2>8. CASE Keep(r)
    <3>1. pc[r] # "queued" /\ UNCHANGED queue /\ pc' = [pc EXCEPT ![r] = "posting"]
      BY <2>8 DEF Keep, HandOut
    <3> QED BY <1>0, <3>1, NoWait
  <2>9. CASE AskFails(r) \/ PostRefused(r) \/ PostFails(r)
    <3>1. pc[r] # "queued" /\ UNCHANGED queue /\ pc' = [pc EXCEPT ![r] = "failed"]
      BY <2>9 DEF AskFails, PostRefused, PostFails, Answer, store
    <3> QED BY <1>0, <3>1, NoWait
  <2>10. CASE Post(r)
    <3>1. pc[r] # "queued" /\ UNCHANGED queue
      BY <2>10 DEF Post, store
    <3>2. CASE pc' = [pc EXCEPT ![r] = "done"]
      BY <1>0, <3>1, <3>2, NoWait
    <3>3. CASE UNCHANGED pc
      BY <3>1, <3>3, QueueKept
    <3> QED BY <2>10, <3>2, <3>3 DEF Post, Answer
  <2> QED BY <2>1, <2>2, <2>3, <2>4, <2>5, <2>6, <2>7, <2>8, <2>9, <2>10
          DEF Proceed, Authorize
<1>5. CASE Tick
  BY <1>5, QueueKept DEF Tick, store, request
<1> QED BY <1>1, <1>2, <1>3, <1>4, <1>5 DEF Next

LEMMA QueueHolds == Spec => []QueueIsWaiters
<1>1. Init => QueueIsWaiters
  BY DEF Init, QueueIsWaiters
<1> QED BY <1>1, QueueStep, IInvHolds, PTL DEF Spec

\* asyncio.Lock around the refresh: however many requests find no token at
\* once, in whatever order they are answered or fail, whoever waits is in the
\* queue behind others that wait, and the lock is free or held by a request
\* whose call to the authorization server is within its time limit.
THEOREM WaitersAreServedHolds == Spec => []WaitersAreServed
<1>1. IInv /\ QueueIsWaiters => WaitersAreServed
  <2> SUFFICES ASSUME IInv, QueueIsWaiters, NEW r \in Requests, pc[r] = "queued"
               PROVE  /\ \E i \in 1 .. Len(queue) :
                           /\ queue[i] = r
                           /\ \A j \in 1 .. i - 1 : pc[queue[j]] = "queued" /\ queue[j] # r
                      /\ \/ lock = None
                         \/ \E s \in Requests :
                              lock = s /\ Asking(s) /\ now <= since[s] + AskSpan
    BY DEF WaitersAreServed
  <2>1. queue \in Seq(Requests) /\ Len(queue) \in Nat /\ lock \in Requests \union {None}
    BY DEF IInv, TypeOK
  <2>2. PICK i \in 1 .. Len(queue) : queue[i] = r
    BY DEF QueueIsWaiters
  <2>3. ASSUME NEW j \in 1 .. i - 1
        PROVE  pc[queue[j]] = "queued" /\ queue[j] # r
    <3>1. j \in 1 .. Len(queue) /\ j # i /\ queue[j] \in Requests
      BY <2>1
    <3> QED BY <2>2, <3>1 DEF QueueIsWaiters
  <2>4. lock # None => Asking(lock) /\ now <= since[lock] + AskSpan
    BY <2>1 DEF IInv, LockIsAsker, InTime
  <2> QED BY <2>1, <2>2, <2>3, <2>4
<1> QED BY <1>1, IInvHolds, QueueHolds, PTL

\* The refresh is done by one request at a time: tokens are asked for under
\* the lock, and a request that fails gives it back before another asks.
THEOREM OneRefreshHolds == Spec => []OneRefresh
<1>1. IInv => OneRefresh
  BY DEF IInv, LockIsAsker, OneRefresh
<1> QED BY <1>1, IInvHolds, PTL

=============================================================================
