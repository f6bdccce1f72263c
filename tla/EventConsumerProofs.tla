------------------------- MODULE EventConsumerProofs -------------------------
(***************************************************************************)
(* Proofs about EventConsumer for any queues, events and bindings, any     *)
(* number of concurrent deliveries, copies, replays, retries and faults.   *)
(***************************************************************************)
EXTENDS EventConsumer, FiniteSetTheorems, TLAPS

-----------------------------------------------------------------------------
(* Facts about the helpers *)

LEMMA IInvParts ==
  IInv <=> /\ TypeOK /\ EffectOnce /\ NoSilentLoss
           /\ HandlersExclusive /\ TriesLeft /\ CopiesRouted /\ CopiesAccounted
BY DEF IInv

\* A delivery slot belongs to a queue.
LEMMA SlotQueue == ASSUME NEW s \in Slots PROVE s[1] \in Queues
BY DEF Slots

\* What has been published of an event is a number, and grows with its two parts only.
LEMMA PublishedNat ==
  ASSUME TypeOK, NEW e \in Events
  PROVE  /\ Published(e) \in Nat
         /\ sent'[e] = sent[e] /\ replays' = replays => Published(e)' = Published(e)
         /\ sent'[e] = sent[e] + 1 /\ replays' = replays => Published(e)' = Published(e) + 1
         /\ sent'[e] = sent[e] /\ replays' = replays + 1 => Published(e)' = Published(e) + PublishTries
<1>1. sent[e] \in Nat /\ replays \in Nat /\ PublishTries \in Nat
  BY ConsumerAssumption DEF TypeOK
<1>2. PublishTries * replays \in Nat
  BY <1>1
<1>3. PublishTries * (replays + 1) = PublishTries * replays + PublishTries
  BY <1>1
<1>4. QED
  BY <1>1, <1>2, <1>3 DEF Published

\* A letter in the tool's hands has a try left.
LEMMA MayAddNat ==
  ASSUME TypeOK, NEW q, NEW e
  PROVE  MayAdd(q, e) \in Nat
<1>1. PublishTries - replayTries \in Nat
  BY ConsumerAssumption DEF TypeOK
<1>2. QED
  BY <1>1 DEF MayAdd

\* A worker has no more unanswered deliveries than slots.
LEMMA UnansweredFinite ==
  ASSUME owned \in SUBSET Slots, NEW q, NEW e
  PROVE  /\ IsFiniteSet(Unanswered(q, e))
         /\ Cardinality(Unanswered(q, e)) \in Nat
         /\ Cardinality(Unanswered(q, e)) = 0 <=> Unanswered(q, e) = {}
<1> DEFINE S == Unanswered(q, e)
           f == [s \in S |-> s[2]]
<1>1. PICK n \in Nat : \A s \in S : s \in Queues \X (1..n) /\ s[1] = q
  <2>1. \A s \in S : s \in Queues \X (1..Prefetch[q]) /\ s[1] = q
    BY DEF Unanswered, Slots
  <2>2. CASE q \in Queues
    BY <2>1, <2>2, ConsumerAssumption
  <2>3. CASE q \notin Queues
    BY <2>1, <2>3
  <2>4. QED
    BY <2>2, <2>3
<1>2. f \in [S -> 1..n]
  BY <1>1
<1>3. \A s, t \in S : f[s] = f[t] => s = t
  BY <1>1
<1>4. f \in Injection(S, 1..n)
  BY <1>2, <1>3 DEF Injection, IsInjective
<1>5. IsFiniteSet(1..n)
  BY <1>1, FS_Interval
<1>6. IsFiniteSet(S)
  BY <1>4, <1>5, FS_Injection
<1>7. QED
  BY <1>6, FS_CardinalityType, FS_EmptySet

\* When one delivery is answered for, its event has one unanswered delivery less.
LEMMA UnansweredAfter ==
  ASSUME owned \in SUBSET Slots, NEW s \in Slots, NEW q, NEW e
  PROVE  /\ IsFiniteSet(Unanswered(q, e) \ {s})
         /\ Cardinality(Unanswered(q, e) \ {s}) \in Nat
         /\ s \in Unanswered(q, e) =>
              Cardinality(Unanswered(q, e)) = Cardinality(Unanswered(q, e) \ {s}) + 1
         /\ s \notin Unanswered(q, e) => Unanswered(q, e) \ {s} = Unanswered(q, e)
<1>1. IsFiniteSet(Unanswered(q, e)) /\ Cardinality(Unanswered(q, e)) \in Nat
  BY UnansweredFinite
<1>2. /\ IsFiniteSet(Unanswered(q, e) \ {s})
      /\ Cardinality(Unanswered(q, e) \ {s}) =
           IF s \in Unanswered(q, e) THEN Cardinality(Unanswered(q, e)) - 1
                                     ELSE Cardinality(Unanswered(q, e))
  BY <1>1, FS_RemoveElement
<1>3. Cardinality(Unanswered(q, e) \ {s}) \in Nat
  BY <1>2, FS_CardinalityType
<1>4. QED
  BY <1>1, <1>2, <1>3

\* Copies that go from one place to another add up to no more than before.
LEMMA CopiesBalance ==
  ASSUME NEW r \in Nat, NEW d \in Nat, NEW c \in Nat, NEW m \in Nat, NEW n \in Nat,
         NEW d2 \in Nat, NEW c2 \in Nat,
         r + d + c + m <= n, d2 + c2 <= d + c
  PROVE  r + d2 + c2 + m <= n
OBVIOUS

\* The exchange adds at most one copy to each queue, and does so to bound, declared
\* queues only.
LEMMA RouteStep ==
  ASSUME IInv, NEW e \in Events, Route(e)
  PROVE  /\ ready' \in [Queues -> [Events -> Nat]]
         /\ routed' \in [Queues -> SUBSET Events]
         /\ \A q \in Queues, f \in Events :
              ready'[q][f] = IF q \in Bindings[e] \intersect declared /\ f = e
                             THEN ready[q][f] + 1 ELSE ready[q][f]
         /\ \A q \in Queues :
              routed'[q] = IF q \in Bindings[e] \intersect declared
                           THEN routed[q] \union {e} ELSE routed[q]
<1> DEFINE to == Bindings[e] \intersect declared
<1>1. ready \in [Queues -> [Events -> Nat]] /\ routed \in [Queues -> SUBSET Events]
  BY IInvParts DEF TypeOK
<1>2. /\ ready' = [q \in Queues |-> IF q \in to THEN [ready[q] EXCEPT ![e] = ready[q][e] + 1]
                                                ELSE ready[q]]
      /\ routed' = [q \in Queues |-> IF q \in to THEN routed[q] \union {e} ELSE routed[q]]
  BY DEF Route
<1>3. ASSUME NEW q \in Queues
      PROVE  /\ ready'[q] \in [Events -> Nat]
             /\ \A f \in Events : ready'[q][f] = IF q \in to /\ f = e
                                                 THEN ready[q][f] + 1 ELSE ready[q][f]
  <2>1. ready[q] \in [Events -> Nat]
    BY <1>1
  <2>2. CASE q \in to
    <3>1. ready'[q] = [ready[q] EXCEPT ![e] = ready[q][e] + 1]
      BY <1>2, <2>2
    <3>2. QED
      BY <2>1, <2>2, <3>1
  <2>3. CASE q \notin to
    BY <1>2, <2>1, <2>3
  <2>4. QED
    BY <2>2, <2>3
<1>4. ready' \in [Queues -> [Events -> Nat]]
  BY <1>2, <1>3
<1>5. routed' \in [Queues -> SUBSET Events]
  BY <1>1, <1>2
<1>6. QED
  BY <1>2, <1>3, <1>4, <1>5

\* A queue gets back what its worker had not answered for.
LEMMA RequeueStep ==
  ASSUME IInv, NEW q \in Queues, Requeue(q), owned' = {s \in owned : s[1] # q}, holds' = holds
  PROVE  /\ ready' \in [Queues -> [Events -> Nat]]
         /\ \A e \in Events : ready'[q][e] = ready[q][e] + Cardinality(Unanswered(q, e))
         /\ \A p \in Queues \ {q} : ready'[p] = ready[p]
         /\ \A e \in Events : Unanswered(q, e)' = {}
         /\ \A p \in Queues \ {q}, e \in Events : Unanswered(p, e)' = Unanswered(p, e)
<1>1. ready \in [Queues -> [Events -> Nat]] /\ owned \in SUBSET Slots
  BY IInvParts DEF TypeOK
<1>2. ready' = [ready EXCEPT ![q] = [e \in Events |-> ready[q][e] + Cardinality(Unanswered(q, e))]]
  BY DEF Requeue
<1>3. \A e \in Events : Cardinality(Unanswered(q, e)) \in Nat
  BY <1>1, UnansweredFinite
<1>4. ready'[q] = [e \in Events |-> ready[q][e] + Cardinality(Unanswered(q, e))]
  BY <1>1, <1>2
<1>5. ready'[q] \in [Events -> Nat]
  BY <1>1, <1>3, <1>4
<1>6. ready' \in [Queues -> [Events -> Nat]]
  BY <1>1, <1>2, <1>5
<1>7. \A e \in Events : Unanswered(q, e)' = {}
  BY DEF Unanswered
<1>8. \A p \in Queues \ {q}, e \in Events : Unanswered(p, e)' = Unanswered(p, e)
  BY DEF Unanswered
<1>9. \A p \in Queues \ {q} : ready'[p] = ready[p]
  BY <1>1, <1>2
<1>10. QED
  BY <1>4, <1>6, <1>7, <1>8, <1>9

-----------------------------------------------------------------------------
(* Steps of a handler *)

\* A step that moves a delivery on and at most adds to the inbox keeps all that is
\* said about copies.
LEMMA HandlerMoves ==
  ASSUME IInv, NEW s \in Slots, NEW where \in Working,
         pc[s] # "free", pc' = [pc EXCEPT ![s] = where],
         UNCHANGED <<declared, routed, ready, dlq, closing, holds, owned, sent, tool, replayTries, replays, dropped, faults>>,
         tries' \in [Slots -> Nat],
         \A r \in Slots \ {s} : tries'[r] = tries[r],
         tries'[s] < HandlerTries[s[1]],
         inbox' \in [Queues -> SUBSET Events], effects' \in [Queues -> [Events -> Nat]],
         \A q \in Queues : inbox[q] \subseteq inbox'[q]
  PROVE  TypeOK' /\ NoSilentLoss' /\ TriesLeft' /\ CopiesRouted' /\ CopiesAccounted'
<1>1. TypeOK'
  BY IInvParts DEF TypeOK
<1>2. \A q \in Queues, e \in Events : Unanswered(q, e)' = Unanswered(q, e)
  BY DEF Unanswered
<1>3. NoSilentLoss'
  <2>1. ASSUME NEW q \in Queues, NEW e \in routed'[q]
        PROVE  e \in inbox'[q] \/ Pending(q, e)' \/ dropped'[q][e] > 0
    <3>1. e \in inbox[q] \/ Pending(q, e) \/ dropped[q][e] > 0
      BY IInvParts DEF NoSilentLoss
    <3>2. Pending(q, e)' <=> Pending(q, e)
      BY DEF Pending, Unanswered
    <3>3. QED
      BY <3>1, <3>2
  <2>2. QED
    BY <2>1 DEF NoSilentLoss
<1>4. \A r \in Slots : pc'[r] # "free" => pc[r] # "free"
  BY IInvParts DEF TypeOK
<1>5. \A r \in Slots : pc[r] # "free" => pc'[r] # "free"
  BY IInvParts DEF TypeOK, Working
<1>6. CopiesRouted'
  BY <1>4, <1>5, IInvParts DEF CopiesRouted, TypeOK
<1>7. CopiesAccounted'
  BY <1>2, IInvParts DEF CopiesAccounted, MayAdd, Published
<1>8. TriesLeft'
  BY IInvParts DEF TriesLeft
<1>9. QED
  BY <1>1, <1>3, <1>6, <1>7, <1>8

\* What a handler's transaction does to inbox and effects.
LEMMA EffectStep ==
  ASSUME IInv, NEW s \in Slots, pc[s] = "writing", Effect(s)
  PROVE  /\ EffectOnce'
         /\ inbox' \in [Queues -> SUBSET Events]
         /\ effects' \in [Queues -> [Events -> Nat]]
         /\ inbox'[s[1]] = inbox[s[1]] \union {holds[s]}
         /\ \A q \in Queues \ {s[1]} : inbox'[q] = inbox[q]
         /\ \A q \in Queues : inbox[q] \subseteq inbox'[q]
         /\ effects[s[1]][holds[s]] = 0
         /\ effects' = [effects EXCEPT ![s[1]][holds[s]] = effects[s[1]][holds[s]] + 1]
<1> DEFINE q == s[1]
           e == holds[s]
<1>1. q \in Queues /\ e \in Events
  BY SlotQueue, IInvParts DEF TypeOK
<1>2. inbox \in [Queues -> SUBSET Events] /\ effects \in [Queues -> [Events -> Nat]]
  BY IInvParts DEF TypeOK
<1>3. e \notin inbox[q]
  BY IInvParts DEF HandlersExclusive
<1>4. effects[q][e] = 0
  BY <1>1, <1>3, IInvParts DEF EffectOnce
<1>5. /\ inbox' = [inbox EXCEPT ![q] = inbox[q] \union {e}]
      /\ effects' = [effects EXCEPT ![q] = [effects[q] EXCEPT ![e] = effects[q][e] + 1]]
  BY DEF Effect
<1>6. /\ inbox'[q] = inbox[q] \union {e}
      /\ \A p \in Queues \ {q} : inbox'[p] = inbox[p]
      /\ inbox' \in [Queues -> SUBSET Events]
  BY <1>1, <1>2, <1>5
<1>7. effects[q] \in [Events -> Nat] /\ effects'[q] = [effects[q] EXCEPT ![e] = 1]
  BY <1>1, <1>2, <1>4, <1>5
<1>8. effects'[q] \in [Events -> Nat] /\ \A f \in Events : effects'[q][f] = IF f = e THEN 1 ELSE effects[q][f]
  BY <1>1, <1>7
<1>9. \A p \in Queues \ {q} : effects'[p] = effects[p]
  BY <1>2, <1>5
<1>10. effects' \in [Queues -> [Events -> Nat]]
  BY <1>2, <1>5, <1>8
<1>11. ASSUME NEW p \in Queues, NEW f \in Events
       PROVE  effects'[p][f] = IF f \in inbox'[p] THEN 1 ELSE 0
  <2>1. effects[p][f] = IF f \in inbox[p] THEN 1 ELSE 0
    BY IInvParts DEF EffectOnce
  <2>2. CASE p = q
    BY <2>1, <2>2, <1>6, <1>8
  <2>3. CASE p # q
    BY <2>1, <2>3, <1>6, <1>9
  <2>4. QED
    BY <2>2, <2>3
<1>12. EffectOnce'
  BY <1>11 DEF EffectOnce
<1>13. QED
  BY <1>4, <1>5, <1>6, <1>10, <1>12

\* A delivery that moves on, and does not begin to write or finish, leaves the other
\* handlers of its event as they are.
LEMMA ExclusiveMoves ==
  ASSUME IInv, NEW s \in Slots, NEW where \in Working \ {"writing"},
         pc' = [pc EXCEPT ![s] = where], holds' = holds,
         where = "handled" => holds[s] \in inbox'[s[1]],
         \A q \in Queues : inbox[q] \subseteq inbox'[q],
         inbox' = inbox \/ (/\ pc[s] = "writing"
                            /\ inbox'[s[1]] = inbox[s[1]] \union {holds[s]}
                            /\ \A q \in Queues \ {s[1]} : inbox'[q] = inbox[q])
  PROVE  HandlersExclusive'
<1>1. pc \in [Slots -> Working \union {"free"}]
  BY IInvParts DEF TypeOK
<1>2. pc'[s] = where /\ \A r \in Slots \ {s} : pc'[r] = pc[r]
  BY <1>1
<1>3. ASSUME NEW r \in Slots, pc'[r] = "writing"
      PROVE  holds'[r] \notin inbox'[r[1]] /\ ~Blocked(r)'
  <2>1. r # s /\ pc[r] = "writing"
    BY <1>2, <1>3
  <2>2. holds[r] \notin inbox[r[1]] /\ ~Blocked(r)
    BY <2>1, IInvParts DEF HandlersExclusive
  <2>3. ~Blocked(r)'
    BY <1>2, <2>2 DEF Blocked
  <2>4. CASE inbox' = inbox
    BY <2>2, <2>3, <2>4
  <2>5. CASE inbox' # inbox
    <3>1. /\ pc[s] = "writing"
          /\ inbox'[s[1]] = inbox[s[1]] \union {holds[s]}
          /\ \A q \in Queues \ {s[1]} : inbox'[q] = inbox[q]
      BY <2>5
    <3>2. ~(s[1] = r[1] /\ holds[s] = holds[r])
      BY <2>1, <2>2, <3>1 DEF Blocked
    <3>3. r[1] \in Queues
      BY SlotQueue
    <3>4. holds[r] \notin inbox'[r[1]]
      BY <2>2, <3>1, <3>2, <3>3
    <3>5. QED
      BY <2>3, <3>4
  <2>6. QED
    BY <2>4, <2>5
<1>4. ASSUME NEW r \in Slots, pc'[r] = "handled"
      PROVE  holds'[r] \in inbox'[r[1]]
  <2>1. CASE r = s
    BY <1>2, <1>4, <2>1
  <2>2. CASE r # s
    BY <1>2, <1>4, <2>2, SlotQueue, IInvParts DEF HandlersExclusive
  <2>3. QED
    BY <2>1, <2>2
<1>5. QED
  BY <1>3, <1>4 DEF HandlersExclusive

-----------------------------------------------------------------------------
(* Each step preserves the inductive invariant: one delivery *)

\* Admit, Refuse, SeeDuplicate, a failed try and a cancellation that roll back: the
\* delivery moves on and nothing is stored.
LEMMA QuietStep ==
  ASSUME IInv, NEW s \in Slots, NEW where \in {"handling", "handled", "rejecting"},
         pc[s] \in Working, pc' = [pc EXCEPT ![s] = where],
         where = "handled" => holds[s] \in inbox[s[1]],
         UNCHANGED <<declared, routed, ready, dlq, closing, holds, owned, sent, tool, replayTries, replays,
                     dropped, faults, inbox, effects>>,
         tries' \in [Slots -> Nat],
         \A r \in Slots \ {s} : tries'[r] = tries[r],
         tries'[s] < HandlerTries[s[1]]
  PROVE  IInv'
<1>1. /\ inbox' \in [Queues -> SUBSET Events] /\ effects' \in [Queues -> [Events -> Nat]]
      /\ \A q \in Queues : inbox[q] \subseteq inbox'[q]
  BY IInvParts DEF TypeOK
<1>2. where \in Working \ {"writing"} /\ pc[s] # "free"
  BY DEF Working
<1>3. TypeOK' /\ NoSilentLoss' /\ TriesLeft' /\ CopiesRouted' /\ CopiesAccounted'
  BY <1>1, <1>2, HandlerMoves
<1>4. HandlersExclusive'
  BY <1>1, <1>2, ExclusiveMoves
<1>5. EffectOnce'
  BY IInvParts DEF EffectOnce
<1>6. QED
  BY <1>3, <1>4, <1>5, IInvParts DEF IInv

\* Commit, a commit after the time-out and one after the cancellation.
LEMMA CommittingStep ==
  ASSUME IInv, NEW s \in Slots, NEW where \in {"handling", "handled", "rejecting"},
         pc[s] = "writing", pc' = [pc EXCEPT ![s] = where], Effect(s),
         UNCHANGED <<declared, routed, ready, dlq, closing, holds, owned, sent, tool, replayTries, replays,
                     dropped, faults>>,
         tries' \in [Slots -> Nat],
         \A r \in Slots \ {s} : tries'[r] = tries[r],
         tries'[s] < HandlerTries[s[1]]
  PROVE  IInv'
<1>1. /\ EffectOnce'
      /\ inbox' \in [Queues -> SUBSET Events] /\ effects' \in [Queues -> [Events -> Nat]]
      /\ inbox'[s[1]] = inbox[s[1]] \union {holds[s]}
      /\ \A q \in Queues \ {s[1]} : inbox'[q] = inbox[q]
      /\ \A q \in Queues : inbox[q] \subseteq inbox'[q]
  BY EffectStep
<1>2. where \in Working \ {"writing"} /\ pc[s] # "free"
  BY DEF Working
<1>3. TypeOK' /\ NoSilentLoss' /\ TriesLeft' /\ CopiesRouted' /\ CopiesAccounted'
  BY <1>1, <1>2, HandlerMoves
<1>4. HandlersExclusive'
  BY <1>1, <1>2, ExclusiveMoves
<1>5. QED
  BY <1>1, <1>3, <1>4 DEF IInv

LEMMA InsertInboxStep ==
  ASSUME IInv, NEW s \in Slots, InsertInbox(s)
  PROVE  IInv'
<1> USE DEF InsertInbox, Goto, service, replay
<1>1. /\ inbox' \in [Queues -> SUBSET Events] /\ effects' \in [Queues -> [Events -> Nat]]
      /\ tries' \in [Slots -> Nat]
      /\ \A q \in Queues : inbox[q] \subseteq inbox'[q]
      /\ pc \in [Slots -> Working \union {"free"}]
  BY IInvParts DEF TypeOK
<1>2. "writing" \in Working /\ pc[s] # "free" /\ tries'[s] < HandlerTries[s[1]]
  BY IInvParts DEF Working, TriesLeft
<1>3. TypeOK' /\ NoSilentLoss' /\ TriesLeft' /\ CopiesRouted' /\ CopiesAccounted'
  BY <1>1, <1>2, HandlerMoves
<1>4. pc'[s] = "writing" /\ \A r \in Slots \ {s} : pc'[r] = pc[r]
  BY <1>1
<1>5. ~Blocked(s) /\ holds[s] \notin inbox[s[1]] /\ inbox' = inbox /\ holds' = holds
  OBVIOUS
<1>6. ASSUME NEW r \in Slots, pc'[r] = "writing"
      PROVE  holds'[r] \notin inbox'[r[1]] /\ ~Blocked(r)'
  <2>1. CASE r = s
    BY <1>4, <1>5, <2>1 DEF Blocked
  <2>2. CASE r # s
    <3>1. pc[r] = "writing" /\ holds[r] \notin inbox[r[1]] /\ ~Blocked(r)
      BY <1>4, <1>6, <2>2, IInvParts DEF HandlersExclusive
    <3>2. ~(r[1] = s[1] /\ holds[r] = holds[s])
      BY <1>5, <2>2, <3>1 DEF Blocked
    <3>3. QED
      BY <1>4, <1>5, <3>1, <3>2 DEF Blocked
  <2>3. QED
    BY <2>1, <2>2
<1>7. \A r \in Slots : pc'[r] = "handled" => holds'[r] \in inbox'[r[1]]
  BY <1>4, <1>5, IInvParts DEF HandlersExclusive
<1>8. HandlersExclusive'
  BY <1>6, <1>7 DEF HandlersExclusive
<1>9. EffectOnce'
  BY IInvParts DEF EffectOnce
<1>10. QED
  BY <1>3, <1>8, <1>9 DEF IInv

\* A failed try is counted, or is the last; the other deliveries are left alone.
LEMMA TriesCounted ==
  ASSUME IInv, NEW s \in Slots, AfterTry(s)
  PROVE  /\ tries' \in [Slots -> Nat]
         /\ tries'[s] < HandlerTries[s[1]]
         /\ \A r \in Slots \ {s} : tries'[r] = tries[r]
         /\ \E where \in {"handling", "rejecting"} : pc' = [pc EXCEPT ![s] = where]
<1>1. tries \in [Slots -> Nat] /\ HandlerTries[s[1]] \in Nat \ {0}
  BY SlotQueue, IInvParts, ConsumerAssumption DEF TypeOK
<1>2. PICK n \in Nat : n < HandlerTries[s[1]] /\ tries' = [tries EXCEPT ![s] = n]
  <2>1. CASE tries[s] + 1 < HandlerTries[s[1]] /\ tries' = [tries EXCEPT ![s] = tries[s] + 1]
    <3>1. tries[s] + 1 \in Nat
      BY <1>1
    <3>2. QED
      BY <2>1, <3>1
  <2>2. CASE tries' = [tries EXCEPT ![s] = 0]
    <3>1. 0 \in Nat /\ 0 < HandlerTries[s[1]]
      BY <1>1
    <3>2. QED
      BY <2>2, <3>1
  <2>3. QED
    BY <2>1, <2>2 DEF AfterTry, EndRetries
<1>3. QED
  BY <1>1, <1>2 DEF AfterTry, EndRetries, Goto

LEMMA TryFailsStep ==
  ASSUME IInv, NEW s \in Slots, TryFails(s) \/ TimeoutAfterCommit(s)
  PROVE  IInv'
<1>1. /\ pc[s] \in {"handling", "writing"}
      /\ AfterTry(s)
      /\ UNCHANGED <<declared, routed, ready, dlq, closing, holds, owned, sent, tool, replayTries, replays,
                     dropped, faults>>
      /\ \/ UNCHANGED <<inbox, effects>>
         \/ pc[s] = "writing" /\ Effect(s)
  BY DEF TryFails, TimeoutAfterCommit, service, replay
<1>2. /\ tries' \in [Slots -> Nat]
      /\ tries'[s] < HandlerTries[s[1]]
      /\ \A r \in Slots \ {s} : tries'[r] = tries[r]
  BY <1>1, TriesCounted
<1>3. PICK where \in {"handling", "rejecting"} : pc' = [pc EXCEPT ![s] = where]
  BY <1>1, TriesCounted
<1>4. pc[s] \in Working
  BY <1>1 DEF Working
<1>5. CASE UNCHANGED <<inbox, effects>>
  BY <1>1, <1>2, <1>3, <1>4, <1>5, QuietStep
<1>6. CASE pc[s] = "writing" /\ Effect(s)
  BY <1>1, <1>2, <1>3, <1>6, CommittingStep
<1>7. QED
  BY <1>1, <1>5, <1>6

LEMMA HandlerSteps ==
  ASSUME IInv, NEW s \in Slots,
         Admit(s) \/ Refuse(s) \/ SeeDuplicate(s) \/ Commit(s) \/ CancelHandler(s)
  PROVE  IInv'
<1>1. /\ tries \in [Slots -> Nat] /\ HandlerTries[s[1]] \in Nat \ {0}
      /\ tries[s] < HandlerTries[s[1]]
      /\ pc[s] \in {"delivered", "handling", "writing"}
  BY SlotQueue, IInvParts, ConsumerAssumption
     DEF TypeOK, TriesLeft, Admit, Refuse, SeeDuplicate, Commit, CancelHandler
<1>2. pc[s] \in Working
  BY <1>1 DEF Working
<1>3. /\ tries' = tries \/ tries' = [tries EXCEPT ![s] = 0]
      /\ UNCHANGED <<declared, routed, ready, dlq, closing, holds, owned, sent, tool, replayTries, replays,
                     dropped, faults>>
  BY DEF Admit, Refuse, SeeDuplicate, Commit, CancelHandler, EndRetries, service, replay
<1>4. /\ tries' \in [Slots -> Nat]
      /\ tries'[s] < HandlerTries[s[1]]
      /\ \A r \in Slots \ {s} : tries'[r] = tries[r]
  <2>1. 0 \in Nat /\ 0 < HandlerTries[s[1]]
    BY <1>1
  <2>2. QED
    BY <1>1, <1>3, <2>1
<1>5. \E where \in {"handling", "handled", "rejecting"} :
        /\ pc' = [pc EXCEPT ![s] = where]
        /\ \/ pc[s] = "writing" /\ Effect(s)
           \/ /\ UNCHANGED <<inbox, effects>>
              /\ where = "handled" => holds[s] \in inbox[s[1]]
  BY DEF Admit, Refuse, SeeDuplicate, Commit, CancelHandler, EndRetries, Goto, service
<1>6. PICK where \in {"handling", "handled", "rejecting"} :
        /\ pc' = [pc EXCEPT ![s] = where]
        /\ \/ pc[s] = "writing" /\ Effect(s)
           \/ /\ UNCHANGED <<inbox, effects>>
              /\ where = "handled" => holds[s] \in inbox[s[1]]
  BY <1>5
<1>7. CASE pc[s] = "writing" /\ Effect(s)
  BY <1>3, <1>4, <1>6, <1>7, CommittingStep
<1>8. CASE UNCHANGED <<inbox, effects>> /\ (where = "handled" => holds[s] \in inbox[s[1]])
  BY <1>2, <1>3, <1>4, <1>6, <1>8, QuietStep
<1>9. QED
  BY <1>6, <1>7, <1>8

\* A delivery is answered for.  Nothing is lost: it was handled, the rejected message
\* is among the dead letters, or the broker had taken the message back before.
LEMMA FinishStep ==
  ASSUME IInv, NEW s \in Slots, Ack(s) \/ Reject(s)
  PROVE  IInv'
<1> DEFINE q == s[1]
           e == holds[s]
<1>1. /\ pc[s] \in {"handled", "rejecting"}
      /\ pc' = [pc EXCEPT ![s] = "free"]
      /\ owned' = owned \ {s}
      /\ UNCHANGED <<declared, routed, ready, closing, holds, tries, sent, tool, replayTries, replays, dropped, faults,
                     inbox, effects>>
      /\ \/ dlq' = dlq /\ (s \in owned => pc[s] = "handled")
         \/ dlq' = [dlq EXCEPT ![q][e] = dlq[q][e] + 1] /\ s \in owned
  BY DEF Ack, Reject, Release, Goto, service, replay
<1>2. /\ pc \in [Slots -> Working \union {"free"}] /\ tries \in [Slots -> Nat]
      /\ owned \in SUBSET Slots /\ holds \in [Slots -> Events]
      /\ dlq \in [Queues -> [Events -> Nat]] /\ ready \in [Queues -> [Events -> Nat]]
  BY IInvParts DEF TypeOK
<1>3. q \in Queues /\ e \in Events
  BY <1>2, SlotQueue
<1>4. /\ dlq' \in [Queues -> [Events -> Nat]]
      /\ \A p \in Queues, f \in Events :
           \/ dlq'[p][f] = dlq[p][f]
           \/ p = q /\ f = e /\ s \in owned /\ dlq'[p][f] = dlq[p][f] + 1
      /\ s \in owned => pc[s] = "handled" \/ dlq'[q][e] = dlq[q][e] + 1
  <2>1. CASE dlq' = dlq /\ (s \in owned => pc[s] = "handled")
    BY <1>2, <2>1
  <2>2. CASE dlq' = [dlq EXCEPT ![q][e] = dlq[q][e] + 1] /\ s \in owned
    <3>1. dlq[q] \in [Events -> Nat] /\ dlq' = [dlq EXCEPT ![q] = [dlq[q] EXCEPT ![e] = dlq[q][e] + 1]]
      BY <1>2, <1>3, <2>2
    <3>2. dlq'[q] = [dlq[q] EXCEPT ![e] = dlq[q][e] + 1]
      BY <1>2, <1>3, <3>1
    <3>3. dlq[q][e] \in Nat /\ dlq'[q] \in [Events -> Nat] /\ dlq'[q][e] = dlq[q][e] + 1
      BY <1>3, <3>1, <3>2
    <3>4. \A f \in Events \ {e} : dlq'[q][f] = dlq[q][f]
      BY <3>1, <3>2
    <3>5. \A p \in Queues \ {q} : dlq'[p] = dlq[p]
      BY <1>2, <3>1
    <3>6. dlq' \in [Queues -> [Events -> Nat]]
      BY <1>2, <3>1, <3>3
    <3>7. QED
      BY <2>2, <3>3, <3>4, <3>5, <3>6
  <2>3. QED
    BY <1>1, <2>1, <2>2
<1>5. tries' \in [Slots -> Nat] /\ pc' \in [Slots -> Working \union {"free"}]
  BY <1>1, <1>2
<1>6. TypeOK'
  BY <1>1, <1>2, <1>4, <1>5, IInvParts DEF TypeOK
<1>7. EffectOnce'
  BY <1>1, IInvParts DEF EffectOnce
<1>8. pc'[s] = "free" /\ \A r \in Slots \ {s} : pc'[r] = pc[r]
  BY <1>1, <1>2
<1>9. HandlersExclusive'
  BY <1>1, <1>8, IInvParts DEF HandlersExclusive, Blocked
<1>10. TriesLeft'
  BY <1>1, IInvParts DEF TriesLeft
<1>11. CopiesRouted'
  <2>1. pc[s] # "free"
    BY <1>1
  <2>2. e \in routed[q]
    BY <2>1, IInvParts DEF CopiesRouted
  <2>3. \A p \in Queues, f \in Events :
          /\ ready'[p][f] > 0 \/ dlq'[p][f] > 0 => f \in routed'[p]
          /\ f \in routed'[p] => p \in Bindings[f] \intersect declared'
    BY <1>1, <1>4, <2>2, IInvParts DEF CopiesRouted
  <2>4. QED
    BY <1>1, <1>2, <1>8, <2>3, IInvParts DEF CopiesRouted
<1>12. \A p \in Queues, f \in Events : Unanswered(p, f)' = Unanswered(p, f) \ {s}
  BY <1>1 DEF Unanswered
<1>13. NoSilentLoss'
  <2>1. ASSUME NEW p \in Queues, NEW f \in routed'[p]
        PROVE  f \in inbox'[p] \/ Pending(p, f)' \/ dropped'[p][f] > 0
    <3>1. f \in Events
      BY <1>1, IInvParts DEF TypeOK
    <3>2. f \in inbox[p] \/ Pending(p, f) \/ dropped[p][f] > 0
      BY <1>1, IInvParts DEF NoSilentLoss
    <3>3. CASE s \in Unanswered(p, f)
      <4>1. p = q /\ f = e /\ s \in owned
        BY <3>3 DEF Unanswered
      <4>2. dlq[q][e] \in Nat
        BY <1>2, <1>3
      <4>3. pc[s] = "handled" => f \in inbox[p]
        BY <4>1, IInvParts DEF HandlersExclusive
      <4>4. dlq'[q][e] = dlq[q][e] + 1 => Pending(p, f)'
        BY <4>1, <4>2 DEF Pending
      <4>5. QED
        BY <1>1, <1>4, <4>1, <4>3, <4>4
    <3>4. CASE s \notin Unanswered(p, f)
      <4>1. Unanswered(p, f)' = Unanswered(p, f)
        BY <1>12, <3>1, <3>4
      <4>2. dlq[p][f] > 0 => dlq'[p][f] > 0
        BY <1>2, <1>4, <3>1
      <4>3. Pending(p, f) => Pending(p, f)'
        BY <1>1, <4>1, <4>2 DEF Pending
      <4>4. QED
        BY <1>1, <3>2, <4>3
    <3>5. QED
      BY <3>3, <3>4
  <2>2. QED
    BY <2>1 DEF NoSilentLoss
<1>14. CopiesAccounted'
  <2>1. ASSUME NEW p \in Queues, NEW f \in Events
        PROVE  ready'[p][f] + dlq'[p][f] + Cardinality(Unanswered(p, f)') + MayAdd(p, f)'
                 <= Published(f)'
    <3>1. ready[p][f] + dlq[p][f] + Cardinality(Unanswered(p, f)) + MayAdd(p, f) <= Published(f)
      BY IInvParts DEF CopiesAccounted
    <3>2. /\ Cardinality(Unanswered(p, f)) \in Nat
          /\ Cardinality(Unanswered(p, f) \ {s}) \in Nat
          /\ s \in Unanswered(p, f) =>
               Cardinality(Unanswered(p, f)) = Cardinality(Unanswered(p, f) \ {s}) + 1
          /\ s \notin Unanswered(p, f) => Unanswered(p, f) \ {s} = Unanswered(p, f)
      BY <1>2, UnansweredAfter, UnansweredFinite
    <3>3. Cardinality(Unanswered(p, f)') = Cardinality(Unanswered(p, f) \ {s})
      BY <1>12
    <3>4. MayAdd(p, f)' = MayAdd(p, f) /\ MayAdd(p, f) \in Nat
      BY <1>1, MayAddNat, IInvParts DEF MayAdd
    <3>5. ready[p][f] \in Nat /\ dlq[p][f] \in Nat /\ ready'[p][f] = ready[p][f]
      BY <1>1, <1>2
    <3>6. Published(f) = Published(f)' /\ Published(f) \in Nat
      BY <1>1, IInvParts, PublishedNat
    <3>7. dlq'[p][f] = dlq[p][f] \/ (s \in Unanswered(p, f) /\ dlq'[p][f] = dlq[p][f] + 1)
      BY <1>4 DEF Unanswered
    <3>8. dlq'[p][f] \in Nat
      BY <1>4
    <3>9. CASE s \in Unanswered(p, f)
      <4>1. dlq'[p][f] + Cardinality(Unanswered(p, f) \ {s}) <= dlq[p][f] + Cardinality(Unanswered(p, f))
        BY <3>2, <3>5, <3>7, <3>9
      <4>2. QED
        BY <4>1, <3>1, <3>2, <3>3, <3>4, <3>5, <3>6, <3>8, CopiesBalance
    <3>10. CASE s \notin Unanswered(p, f)
      <4>1. dlq'[p][f] + Cardinality(Unanswered(p, f) \ {s}) <= dlq[p][f] + Cardinality(Unanswered(p, f))
        BY <3>2, <3>5, <3>7, <3>10
      <4>2. QED
        BY <4>1, <3>1, <3>2, <3>3, <3>4, <3>5, <3>6, <3>8, CopiesBalance
    <3>11. QED
      BY <3>9, <3>10
  <2>2. QED
    BY <2>1 DEF CopiesAccounted
<1>15. QED
  BY <1>6, <1>7, <1>9, <1>10, <1>11, <1>13, <1>14 DEF IInv

-----------------------------------------------------------------------------
(* Each step preserves the inductive invariant: broker and worker processes *)

\* What Deliver does for one event of the queue.
HandedOver(s, e) ==
  /\ pc[s] = "free" /\ ready[s[1]][e] > 0
  /\ ready' = [ready EXCEPT ![s[1]][e] = ready[s[1]][e] - 1]
  /\ holds' = [holds EXCEPT ![s] = e]
  /\ owned' = owned \union {s}

\* The copy is unanswered now and in the queue no more.
LEMMA DeliveredCopy ==
  ASSUME IInv, NEW s \in Slots, NEW e \in Events, HandedOver(s, e)
  PROVE  /\ s \notin owned
         /\ ready' \in [Queues -> [Events -> Nat]]
         /\ ready'[s[1]][e] + 1 = ready[s[1]][e]
         /\ \A q \in Queues, f \in Events : (q # s[1] \/ f # e) => ready'[q][f] = ready[q][f]
         /\ Unanswered(s[1], e)' = Unanswered(s[1], e) \union {s}
         /\ \A q \in Queues, f \in Events :
              (q # s[1] \/ f # e) => Unanswered(q, f)' = Unanswered(q, f)
         /\ Cardinality(Unanswered(s[1], e)') = Cardinality(Unanswered(s[1], e)) + 1
<1> USE DEF HandedOver
<1> DEFINE p == s[1]
<1>1. /\ ready \in [Queues -> [Events -> Nat]] /\ holds \in [Slots -> Events]
      /\ owned \in SUBSET Slots
  BY IInvParts DEF TypeOK
<1>2. p \in Queues
  BY SlotQueue
<1>3. s \notin owned
  BY IInvParts DEF CopiesRouted
<1>4. ready[p] \in [Events -> Nat] /\ ready' = [ready EXCEPT ![p] = [ready[p] EXCEPT ![e] = ready[p][e] - 1]]
  BY <1>1, <1>2
<1>5. ready'[p] = [ready[p] EXCEPT ![e] = ready[p][e] - 1]
  BY <1>1, <1>2, <1>4
<1>6. ready[p][e] - 1 \in Nat /\ ready[p][e] \in Nat
  BY <1>4
<1>7. ready'[p] \in [Events -> Nat] /\ ready'[p][e] = ready[p][e] - 1
  BY <1>4, <1>5, <1>6
<1>8. \A q \in Queues \ {p} : ready'[q] = ready[q]
  BY <1>1, <1>4
<1>9. \A f \in Events \ {e} : ready'[p][f] = ready[p][f]
  BY <1>4, <1>5
<1>10. ready' \in [Queues -> [Events -> Nat]]
  BY <1>1, <1>4, <1>7
<1>11. holds'[s] = e /\ \A r \in owned : holds'[r] = holds[r]
  BY <1>1, <1>3
<1>12. Unanswered(p, e)' = Unanswered(p, e) \union {s}
  BY <1>11 DEF Unanswered
<1>13. \A q \in Queues, f \in Events : (q # p \/ f # e) => Unanswered(q, f)' = Unanswered(q, f)
  BY <1>11 DEF Unanswered
<1>14. IsFiniteSet(Unanswered(p, e)) /\ s \notin Unanswered(p, e)
  BY <1>1, <1>3, UnansweredFinite DEF Unanswered
<1>15. Cardinality(Unanswered(p, e) \union {s}) = Cardinality(Unanswered(p, e)) + 1
  BY <1>14, FS_AddElement
<1>16. QED
  BY <1>3, <1>6, <1>7, <1>8, <1>9, <1>10, <1>12, <1>13, <1>15

\* A message moves from a queue to a free slot of its worker.
LEMMA DeliverStep ==
  ASSUME IInv, NEW s \in Slots, Deliver(s)
  PROVE  IInv'
<1> DEFINE p == s[1]
<1>1. PICK e \in Events :
        /\ pc[s] = "free" /\ ready[p][e] > 0
        /\ ready' = [ready EXCEPT ![p][e] = ready[p][e] - 1]
        /\ pc' = [pc EXCEPT ![s] = "delivered"]
        /\ holds' = [holds EXCEPT ![s] = e]
        /\ owned' = owned \union {s}
  BY DEF Deliver
<1>2. UNCHANGED <<declared, routed, dlq, closing, tries, inbox, effects, sent, tool, replayTries, replays, dropped, faults>>
  BY DEF Deliver, service, replay
<1>3. /\ s \notin owned
      /\ ready' \in [Queues -> [Events -> Nat]]
      /\ ready'[p][e] + 1 = ready[p][e]
      /\ \A q \in Queues, f \in Events : (q # p \/ f # e) => ready'[q][f] = ready[q][f]
      /\ Unanswered(p, e)' = Unanswered(p, e) \union {s}
      /\ \A q \in Queues, f \in Events : (q # p \/ f # e) => Unanswered(q, f)' = Unanswered(q, f)
      /\ Cardinality(Unanswered(p, e)') = Cardinality(Unanswered(p, e)) + 1
  <2>1. HandedOver(s, e)
    BY <1>1 DEF HandedOver
  <2>2. QED
    BY <2>1, DeliveredCopy
<1>4. /\ ready \in [Queues -> [Events -> Nat]] /\ holds \in [Slots -> Events]
      /\ owned \in SUBSET Slots /\ pc \in [Slots -> Working \union {"free"}]
      /\ p \in Queues
  BY IInvParts, SlotQueue DEF TypeOK
<1>5. pc'[s] = "delivered" /\ holds'[s] = e
      /\ \A r \in Slots \ {s} : pc'[r] = pc[r] /\ holds'[r] = holds[r]
  BY <1>1, <1>4
<1>6. pc' \in [Slots -> Working \union {"free"}] /\ holds' \in [Slots -> Events] /\ owned' \in SUBSET Slots
  BY <1>1, <1>4 DEF Working
<1>7. TypeOK'
  BY <1>2, <1>3, <1>6, IInvParts DEF TypeOK
<1>8. EffectOnce'
  BY <1>2, IInvParts DEF EffectOnce
<1>9. HandlersExclusive'
  BY <1>2, <1>5, IInvParts DEF HandlersExclusive, Blocked
<1>10. TriesLeft'
  BY <1>1, <1>2, <1>5, IInvParts DEF TriesLeft
<1>11. e \in routed[p]
  BY <1>1, <1>4, IInvParts DEF CopiesRouted
<1>12. CopiesRouted'
  <2>1. \A q \in Queues, f \in Events : ready'[q][f] > 0 => ready[q][f] > 0
    BY <1>3, <1>4
  <2>2. \A q \in Queues, f \in Events :
          /\ ready'[q][f] > 0 \/ dlq'[q][f] > 0 => f \in routed'[q]
          /\ f \in routed'[q] => q \in Bindings[f] \intersect declared'
    BY <1>2, <2>1, IInvParts DEF CopiesRouted
  <2>3. \A r \in Slots : pc'[r] # "free" => holds'[r] \in routed'[r[1]]
    BY <1>2, <1>5, <1>11, IInvParts DEF CopiesRouted
  <2>4. \A r \in owned' : pc'[r] # "free"
    BY <1>1, <1>4, <1>5, IInvParts DEF CopiesRouted
  <2>5. tool' # NoLetter => tool'[3] \in routed'[tool'[2]]
    BY <1>2, IInvParts DEF CopiesRouted
  <2>6. QED
    BY <2>2, <2>3, <2>4, <2>5 DEF CopiesRouted
<1>13. NoSilentLoss'
  <2>1. ASSUME NEW q \in Queues, NEW f \in routed'[q]
        PROVE  f \in inbox'[q] \/ Pending(q, f)' \/ dropped'[q][f] > 0
    <3>1. f \in Events /\ (f \in inbox[q] \/ Pending(q, f) \/ dropped[q][f] > 0)
      BY <1>2, IInvParts DEF NoSilentLoss, TypeOK
    <3>2. CASE q = p /\ f = e
      BY <1>3, <3>2 DEF Pending
    <3>3. CASE q # p \/ f # e
      BY <1>2, <1>3, <3>1, <3>3 DEF Pending
    <3>4. QED
      BY <3>2, <3>3
  <2>2. QED
    BY <2>1 DEF NoSilentLoss
<1>14. CopiesAccounted'
  <2>1. ASSUME NEW q \in Queues, NEW f \in Events
        PROVE  ready'[q][f] + dlq'[q][f] + Cardinality(Unanswered(q, f)') + MayAdd(q, f)'
                 <= Published(f)'
    <3>1. ready[q][f] + dlq[q][f] + Cardinality(Unanswered(q, f)) + MayAdd(q, f) <= Published(f)
      BY IInvParts DEF CopiesAccounted
    <3>2. MayAdd(q, f)' = MayAdd(q, f) /\ dlq'[q][f] = dlq[q][f] /\ Published(f)' = Published(f)
      BY <1>2, IInvParts, PublishedNat DEF MayAdd
    <3>3. CASE q = p /\ f = e
      <4>1. /\ Cardinality(Unanswered(q, f)) \in Nat /\ ready[q][f] \in Nat /\ dlq[q][f] \in Nat
            /\ MayAdd(q, f) \in Nat /\ ready'[q][f] \in Nat /\ Published(f) \in Nat
        BY <1>3, <1>4, UnansweredFinite, IInvParts, MayAddNat, PublishedNat DEF TypeOK
      <4>2. Cardinality(Unanswered(q, f)') = Cardinality(Unanswered(q, f)) + 1 /\ ready'[q][f] + 1 = ready[q][f]
        BY <1>3, <3>3
      <4>3. QED
        BY <3>1, <3>2, <4>1, <4>2
    <3>4. CASE q # p \/ f # e
      BY <1>3, <3>1, <3>2, <3>4
    <3>5. QED
      BY <3>3, <3>4
  <2>2. QED
    BY <2>1 DEF CopiesAccounted
<1>15. QED
  BY <1>7, <1>8, <1>9, <1>10, <1>12, <1>13, <1>14 DEF IInv

\* Copies that go from one place to another, arrive or leave, against the publish calls.
LEMMA CopiesChange ==
  ASSUME NEW r \in Nat, NEW d \in Nat, NEW c \in Nat, NEW m \in Nat, NEW n \in Nat,
         NEW r2 \in Nat, NEW d2 \in Nat, NEW c2 \in Nat, NEW m2 \in Nat, NEW n2 \in Nat,
         r + d + c + m <= n, r2 + d2 + c2 + m2 + n <= r + d + c + m + n2
  PROVE  r2 + d2 + c2 + m2 <= n2
OBVIOUS

\* A step of the broker, a process or the tool that stores nothing in a service: what
\* it has to show about copies.
LEMMA CopyStep ==
  ASSUME IInv, TypeOK', UNCHANGED <<inbox, effects, holds>>,
         \A s \in Slots : (pc'[s] = pc[s] /\ tries'[s] = tries[s]) \/ (pc'[s] = "free" /\ tries'[s] = 0),
         \A s \in owned' : s \in owned /\ pc'[s] = pc[s],
         \A q \in Queues, e \in Events :
           /\ ready'[q][e] > 0 \/ dlq'[q][e] > 0 => e \in routed'[q]
           /\ e \in routed'[q] => q \in Bindings[e] \intersect declared'
           /\ e \in routed[q] => e \in routed'[q]
           /\ e \in routed'[q] => e \in routed[q] \/ Pending(q, e)'
           /\ e \in routed[q] /\ Pending(q, e) => Pending(q, e)' \/ dropped'[q][e] > 0
           /\ dropped[q][e] > 0 => dropped'[q][e] > 0,
         tool' # NoLetter => tool'[3] \in routed'[tool'[2]],
         CopiesAccounted'
  PROVE  IInv'
<1>1. EffectOnce'
  BY IInvParts DEF EffectOnce
<1>2. routed \in [Queues -> SUBSET Events] /\ routed' \in [Queues -> SUBSET Events]
  BY IInvParts DEF TypeOK
<1>3. NoSilentLoss'
  <2>1. ASSUME NEW q \in Queues, NEW e \in routed'[q]
        PROVE  e \in inbox'[q] \/ Pending(q, e)' \/ dropped'[q][e] > 0
    <3>1. e \in Events
      BY <1>2
    <3>2. CASE e \in routed[q]
      <4>1. e \in inbox[q] \/ Pending(q, e) \/ dropped[q][e] > 0
        BY <3>2, IInvParts DEF NoSilentLoss
      <4>2. QED
        BY <3>1, <3>2, <4>1
    <3>3. CASE e \notin routed[q]
      BY <3>1, <3>3
    <3>4. QED
      BY <3>2, <3>3
  <2>2. QED
    BY <2>1 DEF NoSilentLoss
<1>4. HandlersExclusive'
  <2>1. \A s \in Slots : pc'[s] # "free" => pc'[s] = pc[s]
    OBVIOUS
  <2>2. \A s \in Slots : Blocked(s)' => Blocked(s)
    BY <2>1 DEF Blocked
  <2>3. QED
    BY <2>1, <2>2, IInvParts DEF HandlersExclusive
<1>5. TriesLeft'
  BY SlotQueue, IInvParts, ConsumerAssumption DEF TriesLeft
<1>6. CopiesRouted'
  <2>1. \A s \in Slots : pc'[s] # "free" => holds'[s] \in routed'[s[1]]
    <3>1. ASSUME NEW s \in Slots, pc'[s] # "free"
          PROVE  holds[s] \in routed'[s[1]]
      <4>1. pc[s] # "free" /\ s[1] \in Queues /\ holds[s] \in Events
        BY <3>1, SlotQueue, IInvParts DEF TypeOK
      <4>2. holds[s] \in routed[s[1]]
        BY <4>1, IInvParts DEF CopiesRouted
      <4>3. QED
        BY <4>1, <4>2
    <3>2. QED
      BY <3>1
  <2>2. \A s \in owned' : pc'[s] # "free"
    BY IInvParts DEF CopiesRouted
  <2>3. QED
    BY <2>1, <2>2 DEF CopiesRouted
<1>7. QED
  BY <1>1, <1>3, <1>4, <1>5, <1>6 DEF IInv

\* What the numbers of copies are before a step.
LEMMA CopiesBefore ==
  ASSUME IInv, NEW q \in Queues, NEW e \in Events
  PROVE  /\ ready[q][e] \in Nat /\ dlq[q][e] \in Nat /\ Cardinality(Unanswered(q, e)) \in Nat
         /\ MayAdd(q, e) \in Nat /\ sent[e] \in Nat /\ replays \in Nat /\ Published(e) \in Nat
         /\ ready[q][e] + dlq[q][e] + Cardinality(Unanswered(q, e)) + MayAdd(q, e) <= Published(e)
<1>1. owned \in SUBSET Slots
  BY IInvParts DEF TypeOK
<1>2. Cardinality(Unanswered(q, e)) \in Nat
  BY <1>1, UnansweredFinite
<1>3. /\ ready[q][e] \in Nat /\ dlq[q][e] \in Nat /\ sent[e] \in Nat /\ replays \in Nat
      /\ MayAdd(q, e) \in Nat /\ Published(e) \in Nat
  BY IInvParts, ConsumerAssumption, MayAddNat, PublishedNat DEF TypeOK
<1>4. QED
  BY <1>2, <1>3, IInvParts DEF CopiesAccounted

\* The letter in the hands of the tool is one of an event that reached its queue.
LEMMA LetterType ==
  ASSUME IInv, tool # NoLetter
  PROVE  /\ tool[1] \in {"got", "sent"} /\ tool[2] \in Queues /\ tool[3] \in Events
         /\ tool = <<tool[1], tool[2], tool[3]>>
         /\ tool[3] \in routed[tool[2]]
         /\ tool[2] \in Bindings[tool[3]] \intersect declared
<1>1. tool \in {"got", "sent"} \X Queues \X Events
  BY IInvParts DEF TypeOK
<1>2. tool[3] \in routed[tool[2]]
  BY IInvParts DEF CopiesRouted
<1>3. QED
  BY <1>1, <1>2, IInvParts DEF CopiesRouted


LEMMA PublishStep ==
  ASSUME IInv, NEW e \in Events, Publish(e)
  PROVE  IInv'
<1>1. /\ sent[e] < MaxCopies /\ sent' = [sent EXCEPT ![e] = sent[e] + 1] /\ Route(e)
      /\ UNCHANGED <<declared, dlq, closing, pc, holds, owned, tries, inbox, effects, tool,
                     replayTries, replays, dropped, faults>>
  BY DEF Publish, delivery, service, replay
<1>2. /\ ready' \in [Queues -> [Events -> Nat]]
      /\ routed' \in [Queues -> SUBSET Events]
      /\ \A q \in Queues, f \in Events :
           ready'[q][f] = IF q \in Bindings[e] \intersect declared /\ f = e
                          THEN ready[q][f] + 1 ELSE ready[q][f]
      /\ \A q \in Queues :
           routed'[q] = IF q \in Bindings[e] \intersect declared
                        THEN routed[q] \union {e} ELSE routed[q]
  BY <1>1, RouteStep
<1>3. sent \in [Events -> 0..MaxCopies]
  BY IInvParts DEF TypeOK
<1>4. sent' \in [Events -> 0..MaxCopies] /\ sent'[e] = sent[e] + 1 /\ \A f \in Events \ {e} : sent'[f] = sent[f]
  BY <1>1, <1>3, ConsumerAssumption
<1>5. TypeOK'
  BY <1>1, <1>2, <1>4, IInvParts DEF TypeOK
<1>6. \A q \in Queues, f \in Events : Unanswered(q, f)' = Unanswered(q, f)
  BY <1>1 DEF Unanswered
<1>7. CopiesAccounted'
  <2>1. ASSUME NEW q \in Queues, NEW f \in Events
        PROVE  ready'[q][f] + dlq'[q][f] + Cardinality(Unanswered(q, f)') + MayAdd(q, f)'
                 <= Published(f)'
    <3>1. MayAdd(q, f)' = MayAdd(q, f)
      BY <1>1 DEF MayAdd
    <3>2. \/ f = e /\ ready'[q][f] <= ready[q][f] + 1 /\ Published(f)' = Published(f) + 1
          \/ ready'[q][f] = ready[q][f] /\ Published(f)' = Published(f)
      BY <1>1, <1>2, <1>4, CopiesBefore, IInvParts, PublishedNat
    <3>3. ready'[q][f] \in Nat
      BY <1>2
    <3>4. QED
      BY <1>1, <1>6, <3>1, <3>2, <3>3, CopiesBefore
  <2>2. QED
    BY <2>1 DEF CopiesAccounted
<1>8. ASSUME NEW q \in Queues, NEW f \in Events
      PROVE  /\ ready'[q][f] > 0 \/ dlq'[q][f] > 0 => f \in routed'[q]
             /\ f \in routed'[q] => q \in Bindings[f] \intersect declared'
             /\ f \in routed[q] => f \in routed'[q]
             /\ f \in routed'[q] => f \in routed[q] \/ Pending(q, f)'
             /\ f \in routed[q] /\ Pending(q, f) => Pending(q, f)' \/ dropped'[q][f] > 0
             /\ dropped[q][f] > 0 => dropped'[q][f] > 0
  <2>1. ready[q][f] > 0 => ready'[q][f] > 0
    BY <1>2, CopiesBefore
  <2>2. f \in routed'[q] /\ f \notin routed[q] => ready'[q][f] > 0
    BY <1>2, CopiesBefore
  <2>3. f \in routed[q] => q \in Bindings[f] \intersect declared
    BY IInvParts DEF CopiesRouted
  <2>4. ready[q][f] > 0 \/ dlq[q][f] > 0 => f \in routed[q]
    BY IInvParts DEF CopiesRouted
  <2>5. QED
    BY <1>1, <1>2, <1>6, <2>1, <2>2, <2>3, <2>4 DEF Pending
<1>9. tool' # NoLetter => tool'[3] \in routed'[tool'[2]]
  BY <1>1, <1>2, LetterType
<1>10. QED
  BY <1>1, <1>5, <1>7, <1>8, <1>9, CopyStep

\* Consume, Close and Reopen change what the broker or the worker is, not the copies.
LEMMA LifecycleStep ==
  ASSUME IInv, NEW q \in Queues, Consume(q) \/ Close(q) \/ Reopen(q)
  PROVE  IInv'
<1>1. /\ declared \subseteq declared' /\ declared' \in SUBSET Queues
      /\ closing' \in SUBSET Queues
      /\ faults' \in 0..MaxFaults
      /\ UNCHANGED <<routed, ready, dlq, pc, holds, owned, tries, inbox, effects, sent, tool,
                     replayTries, replays, dropped>>
  BY IInvParts, ConsumerAssumption DEF TypeOK, Consume, Close, Reopen, Fault, delivery, service, replay
<1>2. TypeOK'
  BY <1>1, IInvParts DEF TypeOK
<1>3. \A p \in Queues, f \in Events :
        /\ Unanswered(p, f)' = Unanswered(p, f) /\ MayAdd(p, f)' = MayAdd(p, f)
        /\ Published(f)' = Published(f)
  BY <1>1, IInvParts, PublishedNat DEF Unanswered, MayAdd
<1>4. CopiesAccounted'
  BY <1>1, <1>3, IInvParts DEF CopiesAccounted
<1>5. ASSUME NEW p \in Queues, NEW f \in Events
      PROVE  /\ ready'[p][f] > 0 \/ dlq'[p][f] > 0 => f \in routed'[p]
             /\ f \in routed'[p] => p \in Bindings[f] \intersect declared'
             /\ Pending(p, f) => Pending(p, f)'
  BY <1>1, <1>3, IInvParts DEF CopiesRouted, Pending
<1>6. tool' # NoLetter => tool'[3] \in routed'[tool'[2]]
  BY <1>1, LetterType
<1>7. QED
  BY <1>1, <1>2, <1>4, <1>5, <1>6, CopyStep

\* Crash and LoseChannel: what the worker had not answered for is in the queue again.
LEMMA RequeuingStep ==
  ASSUME IInv, NEW q \in Queues, Crash(q) \/ LoseChannel(q)
  PROVE  IInv'
<1>1. /\ Requeue(q) /\ owned' = {s \in owned : s[1] # q}
      /\ faults' \in 0..MaxFaults /\ closing' \in SUBSET Queues
      /\ UNCHANGED <<declared, routed, dlq, holds, inbox, effects, sent, tool, replayTries, replays, dropped>>
  BY IInvParts, ConsumerAssumption DEF TypeOK, Crash, LoseChannel, Fault, service, replay
<1>2. /\ \A s \in Slots : (pc'[s] = pc[s] /\ tries'[s] = tries[s]) \/ (pc'[s] = "free" /\ tries'[s] = 0)
      /\ \A s \in Slots : s[1] # q => pc'[s] = pc[s]
      /\ pc' \in [Slots -> Working \union {"free"}] /\ tries' \in [Slots -> Nat]
  <2>1. pc \in [Slots -> Working \union {"free"}] /\ tries \in [Slots -> Nat]
    BY IInvParts DEF TypeOK
  <2>2. CASE LoseChannel(q)
    BY <2>1, <2>2 DEF LoseChannel
  <2>3. CASE Crash(q)
    <3>1. /\ pc' = [s \in Slots |-> IF s[1] = q THEN "free" ELSE pc[s]]
          /\ tries' = [s \in Slots |-> IF s[1] = q THEN 0 ELSE tries[s]]
      BY <2>3 DEF Crash
    <3>2. QED
      BY <2>1, <3>1
  <2>4. QED
    BY <2>2, <2>3
<1>3. owned \in SUBSET Slots
  BY IInvParts DEF TypeOK
<1>4. /\ ready' \in [Queues -> [Events -> Nat]]
      /\ \A e \in Events : ready'[q][e] = ready[q][e] + Cardinality(Unanswered(q, e))
      /\ \A p \in Queues \ {q} : ready'[p] = ready[p]
      /\ \A e \in Events : Unanswered(q, e)' = {}
      /\ \A p \in Queues \ {q}, e \in Events : Unanswered(p, e)' = Unanswered(p, e)
  BY <1>1, RequeueStep
<1>5. TypeOK'
  BY <1>1, <1>2, <1>3, <1>4, IInvParts DEF TypeOK
<1>6. CopiesAccounted'
  <2>1. ASSUME NEW p \in Queues, NEW f \in Events
        PROVE  ready'[p][f] + dlq'[p][f] + Cardinality(Unanswered(p, f)') + MayAdd(p, f)'
                 <= Published(f)'
    <3>1. MayAdd(p, f)' = MayAdd(p, f) /\ Published(f)' = Published(f)
      BY <1>1, IInvParts, PublishedNat DEF MayAdd
    <3>2. CASE p = q
      <4>1. Cardinality(Unanswered(p, f)') = 0
        BY <1>4, <3>2, FS_EmptySet
      <4>2. QED
        BY <1>1, <1>4, <3>1, <3>2, <4>1, CopiesBefore
    <3>3. CASE p # q
      BY <1>1, <1>4, <3>1, <3>3, CopiesBefore
    <3>4. QED
      BY <3>2, <3>3
  <2>2. QED
    BY <2>1 DEF CopiesAccounted
<1>7. ASSUME NEW p \in Queues, NEW f \in Events
      PROVE  /\ ready'[p][f] > 0 \/ dlq'[p][f] > 0 => f \in routed'[p]
             /\ f \in routed'[p] => p \in Bindings[f] \intersect declared'
             /\ Pending(p, f) => Pending(p, f)'
  <2>1. /\ ready[p][f] > 0 \/ dlq[p][f] > 0 => f \in routed[p]
        /\ f \in routed[p] => p \in Bindings[f] \intersect declared
    BY IInvParts DEF CopiesRouted
  <2>2. ASSUME Unanswered(p, f) # {}
        PROVE  f \in routed[p]
    <3>1. PICK s \in owned : s[1] = p /\ holds[s] = f
      BY <2>2 DEF Unanswered
    <3>2. pc[s] # "free" /\ s \in Slots
      BY <1>3, IInvParts DEF CopiesRouted
    <3>3. QED
      BY <3>1, <3>2, IInvParts DEF CopiesRouted
  <2>3. Cardinality(Unanswered(p, f)) = 0 <=> Unanswered(p, f) = {}
    BY <1>3, UnansweredFinite
  <2>4. CASE p = q
    <3>1. ready'[p][f] = ready[p][f] + Cardinality(Unanswered(p, f))
      BY <1>4, <2>4
    <3>2. ready'[p][f] > 0 <=> ready[p][f] > 0 \/ Unanswered(p, f) # {}
      BY <2>3, <3>1, CopiesBefore
    <3>3. QED
      BY <1>1, <2>1, <2>2, <3>2 DEF Pending
  <2>5. CASE p # q
    BY <1>1, <1>4, <2>1, <2>5 DEF Pending
  <2>6. QED
    BY <2>4, <2>5
<1>8. \A s \in owned' : s \in owned /\ pc'[s] = pc[s]
  BY <1>1, <1>2, <1>3
<1>9. tool' # NoLetter => tool'[3] \in routed'[tool'[2]]
  BY <1>1, LetterType
<1>10. QED
  BY <1>1, <1>2, <1>5, <1>6, <1>7, <1>8, <1>9, CopyStep


-----------------------------------------------------------------------------
(* Each step preserves the inductive invariant: the replay tool *)

\* A dead-letter queue with one copy more, or one less.
DlqGains(q, e) == dlq' = [dlq EXCEPT ![q][e] = dlq[q][e] + 1]
DlqLoses(q, e) == dlq' = [dlq EXCEPT ![q][e] = dlq[q][e] - 1]

LEMMA DlqMore ==
  ASSUME IInv, NEW q \in Queues, NEW e \in Events, DlqGains(q, e)
  PROVE  /\ dlq' \in [Queues -> [Events -> Nat]]
         /\ dlq'[q][e] = dlq[q][e] + 1 /\ dlq'[q][e] > 0
         /\ \A p \in Queues, f \in Events : (p # q \/ f # e) => dlq'[p][f] = dlq[p][f]
<1>1. dlq \in [Queues -> [Events -> Nat]]
  BY IInvParts DEF TypeOK
<1>2. dlq[q] \in [Events -> Nat] /\ dlq' = [dlq EXCEPT ![q] = [dlq[q] EXCEPT ![e] = dlq[q][e] + 1]]
  BY <1>1 DEF DlqGains
<1>3. dlq'[q] = [dlq[q] EXCEPT ![e] = dlq[q][e] + 1]
  BY <1>1, <1>2
<1>4. /\ dlq'[q] \in [Events -> Nat]
      /\ dlq'[q][e] = dlq[q][e] + 1 /\ dlq'[q][e] > 0
      /\ \A f \in Events \ {e} : dlq'[q][f] = dlq[q][f]
  BY <1>2, <1>3
<1>5. \A p \in Queues \ {q} : dlq'[p] = dlq[p]
  BY <1>1, <1>2
<1>6. dlq' \in [Queues -> [Events -> Nat]]
  BY <1>1, <1>2, <1>4
<1>7. QED
  BY <1>4, <1>5, <1>6

LEMMA DlqLess ==
  ASSUME IInv, NEW q \in Queues, NEW e \in Events, dlq[q][e] > 0, DlqLoses(q, e)
  PROVE  /\ dlq' \in [Queues -> [Events -> Nat]]
         /\ dlq'[q][e] = dlq[q][e] - 1
         /\ \A p \in Queues, f \in Events : (p # q \/ f # e) => dlq'[p][f] = dlq[p][f]
<1>1. dlq \in [Queues -> [Events -> Nat]]
  BY IInvParts DEF TypeOK
<1>2. dlq[q] \in [Events -> Nat] /\ dlq' = [dlq EXCEPT ![q] = [dlq[q] EXCEPT ![e] = dlq[q][e] - 1]]
  BY <1>1 DEF DlqLoses
<1>3. dlq'[q] = [dlq[q] EXCEPT ![e] = dlq[q][e] - 1]
  BY <1>1, <1>2
<1>4. dlq[q][e] - 1 \in Nat
  BY <1>2
<1>5. /\ dlq'[q] \in [Events -> Nat] /\ dlq'[q][e] = dlq[q][e] - 1
      /\ \A f \in Events \ {e} : dlq'[q][f] = dlq[q][f]
  BY <1>2, <1>3, <1>4
<1>6. \A p \in Queues \ {q} : dlq'[p] = dlq[p]
  BY <1>1, <1>2
<1>7. dlq' \in [Queues -> [Events -> Nat]]
  BY <1>1, <1>2, <1>5
<1>8. QED
  BY <1>5, <1>6, <1>7

LEMMA ReplayGetStep ==
  ASSUME IInv, NEW q \in Queues, NEW e \in Events, ReplayGet(q, e)
  PROVE  IInv'
<1>1. /\ tool = NoLetter /\ dlq[q][e] > 0 /\ replays < MaxReplays
      /\ replays' = replays + 1
      /\ dlq' = [dlq EXCEPT ![q][e] = dlq[q][e] - 1]
      /\ tool' = <<"got", q, e>>
      /\ UNCHANGED <<declared, routed, ready, closing, pc, holds, owned, tries, inbox, effects,
                     sent, replayTries, dropped, faults>>
  BY DEF ReplayGet, delivery, service
<1>3. /\ dlq' \in [Queues -> [Events -> Nat]]
      /\ dlq'[q][e] = dlq[q][e] - 1
      /\ \A p \in Queues, f \in Events : (p # q \/ f # e) => dlq'[p][f] = dlq[p][f]
  <2>1. DlqLoses(q, e)
    BY <1>1 DEF DlqLoses
  <2>2. QED
    BY <1>1, <2>1, DlqLess
<1>4. tool' \in {"got", "sent"} \X Queues \X Events /\ tool' # NoLetter
  BY <1>1 DEF NoLetter
<1>5. replays' \in 0..MaxReplays
  BY <1>1, IInvParts, ConsumerAssumption DEF TypeOK
<1>6. TypeOK'
  BY <1>1, <1>3, <1>4, <1>5, IInvParts DEF TypeOK
<1>7. \A p \in Queues, f \in Events : Unanswered(p, f)' = Unanswered(p, f)
  BY <1>1 DEF Unanswered
<1>8. CopiesAccounted'
  <2>1. ASSUME NEW p \in Queues, NEW f \in Events
        PROVE  ready'[p][f] + dlq'[p][f] + Cardinality(Unanswered(p, f)') + MayAdd(p, f)'
                 <= Published(f)'
    <3>1. MayAdd(p, f) = 0
      BY <1>1 DEF MayAdd
    <3>2. Published(f)' = Published(f) + PublishTries /\ PublishTries \in Nat \ {0}
      BY <1>1, IInvParts, PublishedNat, ConsumerAssumption
    <3>3. PublishTries - replayTries \in Nat /\ PublishTries - replayTries <= PublishTries
      BY IInvParts, ConsumerAssumption DEF TypeOK
    <3>4. MayAdd(p, f)' = (IF e = f THEN PublishTries - replayTries ELSE 0)
                        + (IF q = p /\ e = f THEN 1 ELSE 0)
      BY <1>1, <1>4 DEF MayAdd
    <3>5. CASE p = q /\ f = e
      <4>1. MayAdd(p, f)' = PublishTries - replayTries + 1 /\ dlq'[p][f] = dlq[p][f] - 1
        BY <1>3, <3>3, <3>4, <3>5
      <4>2. QED
        BY <1>1, <1>7, <3>1, <3>2, <3>3, <4>1, CopiesBefore
    <3>6. CASE p # q \/ f # e
      <4>1. MayAdd(p, f)' \in Nat /\ MayAdd(p, f)' <= PublishTries /\ dlq'[p][f] = dlq[p][f]
        BY <1>3, <3>2, <3>3, <3>4, <3>6
      <4>2. QED
        BY <1>1, <1>7, <3>1, <3>2, <4>1, CopiesBefore
    <3>7. QED
      BY <3>5, <3>6
  <2>2. QED
    BY <2>1 DEF CopiesAccounted
<1>9. ASSUME NEW p \in Queues, NEW f \in Events
      PROVE  /\ ready'[p][f] > 0 \/ dlq'[p][f] > 0 => f \in routed'[p]
             /\ f \in routed'[p] => p \in Bindings[f] \intersect declared'
             /\ Pending(p, f) => Pending(p, f)'
  <2>1. /\ ready[p][f] > 0 \/ dlq[p][f] > 0 => f \in routed[p]
        /\ f \in routed[p] => p \in Bindings[f] \intersect declared
    BY IInvParts DEF CopiesRouted
  <2>2. dlq'[p][f] > 0 => dlq[p][f] > 0
    BY <1>1, <1>3
  <2>3. dlq[p][f] > 0 => dlq'[p][f] > 0 \/ tool' = <<"got", p, f>>
    BY <1>1, <1>3
  <2>4. tool # <<"got", p, f>>
    BY <1>1 DEF NoLetter
  <2>5. QED
    BY <1>1, <1>7, <2>1, <2>2, <2>3, <2>4 DEF Pending
<1>10. tool' # NoLetter => tool'[3] \in routed'[tool'[2]]
  BY <1>1, IInvParts DEF CopiesRouted
<1>11. QED
  BY <1>1, <1>6, <1>8, <1>9, <1>10, CopyStep

\* ReplayPublish, ReplayTryFails, ReplayAck, ReplayPublishFails and ReplayCrash: the
\* letter goes where it goes, to the queues or not.
LEMMA LetterStep ==
  ASSUME IInv,
         \/ ReplayPublish \/ ReplayTryFails \/ ReplayAck
         \/ ReplayPublishFails \/ ReplayCrash
  PROVE  IInv'
<1> DEFINE at == tool[1]
           q == tool[2]
           e == tool[3]
<1>1. tool # NoLetter
  BY DEF Publishing, ReplayPublish, ReplayTryFails, ReplayAck, ReplayPublishFails, ReplayCrash,
         Attempted
<1>2. /\ at \in {"got", "sent"} /\ q \in Queues /\ e \in Events
      /\ tool = <<at, q, e>> /\ e \in routed[q] /\ q \in Bindings[e] \intersect declared
  BY <1>1, LetterType
<1>3. /\ UNCHANGED <<declared, closing, pc, holds, owned, tries, inbox, effects, sent, replays>>
      /\ faults' \in 0..MaxFaults /\ replayTries' \in 0..(PublishTries - 1)
  BY IInvParts, ConsumerAssumption
     DEF TypeOK, ReplayPublish, ReplayTryFails, ReplayAck, ReplayPublishFails,
         ReplayCrash, Fault, delivery, service
<1>4. /\ ready \in [Queues -> [Events -> Nat]] /\ routed \in [Queues -> SUBSET Events]
      /\ dlq \in [Queues -> [Events -> Nat]] /\ dropped \in [Queues -> [Events -> Nat]]
  BY IInvParts DEF TypeOK
<1>5. \A p \in Queues, f \in Events : Unanswered(p, f)' = Unanswered(p, f)
  BY <1>3 DEF Unanswered
<1>6. \A p \in Queues, f \in Events :
        MayAdd(p, f) = (IF at = "got" /\ e = f THEN PublishTries - replayTries ELSE 0)
                     + (IF q = p /\ e = f THEN 1 ELSE 0)
  BY <1>1 DEF MayAdd
<1>7. /\ (Route(e) /\ at = "got") \/ UNCHANGED <<ready, routed>>
      /\ dlq' = dlq \/ dlq' = [dlq EXCEPT ![q][e] = dlq[q][e] + 1]
      /\ dropped' = dropped \/ dropped' = [dropped EXCEPT ![q][e] = dropped[q][e] + 1]
      /\ tool' = NoLetter \/ tool' = <<"sent", q, e>> \/ tool' = tool
  BY DEF Publishing, ReplayPublish, ReplayTryFails, ReplayAck, ReplayPublishFails, ReplayCrash,
         Attempted
<1>8. \/ Route(e) /\ at = "got" /\ dlq' = dlq /\ dropped' = dropped /\ tool' = <<"sent", q, e>>
      \/ /\ UNCHANGED <<dlq, dropped, tool>> /\ at = "got"
         /\ replayTries + 1 < PublishTries /\ replayTries' = replayTries + 1
      \/ UNCHANGED <<ready, routed, dlq, dropped>> /\ at = "sent" /\ tool' = NoLetter
      \/ dlq' = dlq /\ at = "got" /\ dropped' = [dropped EXCEPT ![q][e] = dropped[q][e] + 1] /\ tool' = NoLetter
      \/ /\ UNCHANGED <<ready, routed, dropped>> /\ tool' = NoLetter
         /\ dlq' = [dlq EXCEPT ![q][e] = dlq[q][e] + 1]
  BY DEF Publishing, ReplayPublish, ReplayTryFails, ReplayAck, ReplayPublishFails, ReplayCrash,
         Attempted
<1>9. /\ ready' \in [Queues -> [Events -> Nat]] /\ routed' \in [Queues -> SUBSET Events]
      /\ \A p \in Queues, f \in Events :
           \/ ready'[p][f] = ready[p][f] /\ (f \in routed'[p] <=> f \in routed[p])
           \/ /\ at = "got" /\ f = e /\ p \in Bindings[e] \intersect declared
              /\ ready'[p][f] = ready[p][f] + 1 /\ f \in routed'[p]
      /\ Route(e) => ready'[q][e] = ready[q][e] + 1
  <2>1. CASE UNCHANGED <<ready, routed>> /\ ~Route(e)
    BY <1>4, <2>1
  <2>2. CASE Route(e) /\ at = "got"
    <3>1. /\ ready' \in [Queues -> [Events -> Nat]]
          /\ routed' \in [Queues -> SUBSET Events]
          /\ \A p \in Queues, f \in Events :
               ready'[p][f] = IF p \in Bindings[e] \intersect declared /\ f = e
                              THEN ready[p][f] + 1 ELSE ready[p][f]
          /\ \A p \in Queues :
               routed'[p] = IF p \in Bindings[e] \intersect declared
                            THEN routed[p] \union {e} ELSE routed[p]
      BY <1>2, <2>2, RouteStep
    <3>2. QED
      BY <1>2, <2>2, <3>1
  <2>3. CASE UNCHANGED <<ready, routed>> /\ Route(e)
    <3>1. ready'[q][e] = ready[q][e] + 1
      BY <1>2, <2>3, RouteStep
    <3>2. QED
      BY <1>4, <2>3, <3>1
  <2>4. QED
    BY <1>7, <2>1, <2>2, <2>3

<1>10. /\ dlq' \in [Queues -> [Events -> Nat]]
       /\ \A p \in Queues, f \in Events :
            \/ dlq'[p][f] = dlq[p][f]
            \/ p = q /\ f = e /\ dlq' # dlq /\ dlq'[p][f] = dlq[p][f] + 1
       /\ dlq' # dlq => dlq'[q][e] = dlq[q][e] + 1
  <2>1. CASE dlq' = dlq
    BY <1>4, <2>1
  <2>2. CASE dlq' = [dlq EXCEPT ![q][e] = dlq[q][e] + 1] /\ dlq' # dlq
    <3>1. /\ dlq' \in [Queues -> [Events -> Nat]]
          /\ dlq'[q][e] = dlq[q][e] + 1
          /\ \A p \in Queues, f \in Events : (p # q \/ f # e) => dlq'[p][f] = dlq[p][f]
      <4>1. DlqGains(q, e)
        BY <2>2 DEF DlqGains
      <4>2. QED
        BY <1>2, <4>1, DlqMore
    <3>2. QED
      BY <2>2, <3>1
  <2>3. QED
    BY <1>7, <2>1, <2>2
<1>11. /\ dropped' \in [Queues -> [Events -> Nat]]
       /\ \A p \in Queues, f \in Events : dropped[p][f] > 0 => dropped'[p][f] > 0
       /\ dropped' # dropped => dropped'[q][e] > 0
  <2>1. CASE dropped' = dropped
    BY <1>4, <2>1
  <2>2. CASE dropped' = [dropped EXCEPT ![q][e] = dropped[q][e] + 1]
    <3>1. dropped[q] \in [Events -> Nat] /\ dropped[q][e] \in Nat
      BY <1>2, <1>4
    <3>2. dropped' = [dropped EXCEPT ![q] = [dropped[q] EXCEPT ![e] = dropped[q][e] + 1]]
      BY <2>2
    <3>3. dropped'[q] = [dropped[q] EXCEPT ![e] = dropped[q][e] + 1]
      BY <1>2, <1>4, <3>2
    <3>4. /\ dropped'[q] \in [Events -> Nat] /\ dropped'[q][e] > 0
          /\ \A f \in Events \ {e} : dropped'[q][f] = dropped[q][f]
      BY <1>2, <3>1, <3>3
    <3>5. \A p \in Queues \ {q} : dropped'[p] = dropped[p]
      BY <1>4, <3>2
    <3>6. dropped' \in [Queues -> [Events -> Nat]]
      BY <1>4, <3>2, <3>4
    <3>7. QED
      BY <3>4, <3>5, <3>6
  <2>3. QED
    BY <1>7, <2>1, <2>2
<1>12. TypeOK'
  <2>1. tool' = NoLetter \/ tool' \in {"got", "sent"} \X Queues \X Events
    BY <1>2, <1>7
  <2>2. QED
    BY <1>3, <1>9, <1>10, <1>11, <2>1, IInvParts DEF TypeOK
<1>13. replayTries \in Nat /\ PublishTries \in Nat /\ replayTries < PublishTries
  BY IInvParts, ConsumerAssumption DEF TypeOK
<1>14. \A p \in Queues, f \in Events :
         /\ MayAdd(p, f)' \in Nat
         /\ ready'[p][f] # ready[p][f] \/ dlq'[p][f] # dlq[p][f] => MayAdd(p, f)' + 1 <= MayAdd(p, f)
         /\ MayAdd(p, f)' <= MayAdd(p, f)
  <2>1. ASSUME NEW p \in Queues, NEW f \in Events
        PROVE  /\ MayAdd(p, f)' \in Nat
               /\ ready'[p][f] # ready[p][f] \/ dlq'[p][f] # dlq[p][f] => MayAdd(p, f)' + 1 <= MayAdd(p, f)
               /\ MayAdd(p, f)' <= MayAdd(p, f)
    <3>1. CASE tool' = NoLetter
      <4>1. MayAdd(p, f)' = 0
        BY <3>1 DEF MayAdd
      <4>2. MayAdd(p, f) \in Nat
        BY CopiesBefore
      <4>3. ready'[p][f] # ready[p][f] => MayAdd(p, f) >= 1
        BY <1>6, <1>9, <1>13
      <4>4. dlq'[p][f] # dlq[p][f] => MayAdd(p, f) >= 1
        BY <1>6, <1>10, <1>13
      <4>5. QED
        BY <4>1, <4>2, <4>3, <4>4
    <3>2. CASE tool' = <<"sent", q, e>> /\ at = "got"
      <4>1. dlq' = dlq /\ tool' # NoLetter
        BY <1>8, <3>2 DEF NoLetter
      <4>2. MayAdd(p, f)' = IF q = p /\ e = f THEN 1 ELSE 0
        BY <3>2, <4>1 DEF MayAdd
      <4>3. QED
        BY <1>6, <1>9, <1>13, <3>2, <4>1, <4>2
    <3>3. CASE tool' = tool /\ at = "got" /\ dlq' = dlq /\ replayTries' = replayTries + 1
      <4>1. PublishTries - (replayTries + 1) \in Nat
        BY <1>3, <1>13, <3>3
      <4>2. MayAdd(p, f)' = (IF e = f THEN PublishTries - (replayTries + 1) ELSE 0)
                          + (IF q = p /\ e = f THEN 1 ELSE 0)
        BY <1>1, <3>3 DEF MayAdd
      <4>3. QED
        BY <1>6, <1>9, <1>13, <3>3, <4>1, <4>2
    <3>4. QED
      BY <1>8, <3>1, <3>2, <3>3
  <2>2. QED
    BY <2>1
<1>15. CopiesAccounted'
  <2>1. ASSUME NEW p \in Queues, NEW f \in Events
        PROVE  ready'[p][f] + dlq'[p][f] + Cardinality(Unanswered(p, f)') + MayAdd(p, f)'
                 <= Published(f)'
    <3>1. /\ MayAdd(p, f)' \in Nat
          /\ ready'[p][f] # ready[p][f] \/ dlq'[p][f] # dlq[p][f] => MayAdd(p, f)' + 1 <= MayAdd(p, f)
          /\ MayAdd(p, f)' <= MayAdd(p, f)
          /\ Published(f)' = Published(f)
      BY <1>3, <1>14, IInvParts, PublishedNat
    <3>2. /\ ready'[p][f] = ready[p][f] \/ ready'[p][f] = ready[p][f] + 1
          /\ dlq'[p][f] = dlq[p][f] \/ dlq'[p][f] = dlq[p][f] + 1
          /\ ready'[p][f] = ready[p][f] \/ dlq'[p][f] = dlq[p][f]
      BY <1>8, <1>9, <1>10
    <3>3. QED
      BY <1>3, <1>5, <3>1, <3>2, CopiesBefore
  <2>2. QED
    BY <2>1 DEF CopiesAccounted
<1>16. ASSUME NEW p \in Queues, NEW f \in Events
       PROVE  /\ ready'[p][f] > 0 \/ dlq'[p][f] > 0 => f \in routed'[p]
              /\ f \in routed'[p] => p \in Bindings[f] \intersect declared'
              /\ f \in routed[p] => f \in routed'[p]
              /\ f \in routed'[p] => f \in routed[p] \/ Pending(p, f)'
              /\ f \in routed[p] /\ Pending(p, f) => Pending(p, f)' \/ dropped'[p][f] > 0
  <2>1. /\ ready[p][f] > 0 \/ dlq[p][f] > 0 => f \in routed[p]
        /\ f \in routed[p] => p \in Bindings[f] \intersect declared
    BY IInvParts DEF CopiesRouted
  <2>2. ready[p][f] > 0 => ready'[p][f] > 0
    BY <1>9, CopiesBefore
  <2>3. dlq[p][f] > 0 => dlq'[p][f] > 0
    BY <1>10, CopiesBefore
  <2>4. ready'[p][f] > 0 => f \in routed'[p]
    BY <1>9, <2>1
  <2>5. dlq'[p][f] > 0 => f \in routed'[p]
    BY <1>2, <1>9, <1>10, <2>1
  <2>6. f \in routed'[p] => p \in Bindings[f] \intersect declared'
    BY <1>3, <1>9, <2>1
  <2>7. f \in routed[p] => f \in routed'[p]
    BY <1>9
  <2>8. f \in routed'[p] => f \in routed[p] \/ ready'[p][f] > 0
    BY <1>9, CopiesBefore
  <2>9. ASSUME tool = <<"got", p, f>>
        PROVE  \/ ready'[p][f] > 0 \/ dlq'[p][f] > 0 \/ dropped'[p][f] > 0
               \/ tool' = <<"got", p, f>>
    <3>1. at = "got" /\ p = q /\ f = e
      BY <1>2, <2>9
    <3>2. CASE Route(e)
      BY <1>9, <3>1, <3>2, CopiesBefore
    <3>3. CASE dropped' = [dropped EXCEPT ![q][e] = dropped[q][e] + 1]
      <4>1. dropped[q] \in [Events -> Nat] /\ dropped[q][e] \in Nat
        BY <1>2, <1>4
      <4>2. dropped' = [dropped EXCEPT ![q] = [dropped[q] EXCEPT ![e] = dropped[q][e] + 1]]
        BY <3>3
      <4>3. dropped'[q] = [dropped[q] EXCEPT ![e] = dropped[q][e] + 1]
        BY <1>2, <1>4, <4>2
      <4>4. dropped'[q][e] > 0
        BY <1>2, <4>1, <4>3
      <4>5. QED
        BY <3>1, <4>4
    <3>4. CASE dlq' = [dlq EXCEPT ![q][e] = dlq[q][e] + 1]
      <4>1. dlq'[q][e] > 0
        <5>1. DlqGains(q, e)
          BY <3>4 DEF DlqGains
        <5>2. QED
          BY <1>2, <5>1, DlqMore
      <4>2. QED
        BY <3>1, <4>1
    <3>5. CASE tool' = tool
      BY <2>9, <3>5
    <3>6. QED
      BY <1>8, <3>1, <3>2, <3>3, <3>4, <3>5
  <2>10. f \in routed[p] /\ Pending(p, f) => Pending(p, f)' \/ dropped'[p][f] > 0
    BY <1>5, <2>2, <2>3, <2>9 DEF Pending
  <2>11. f \in routed'[p] => f \in routed[p] \/ Pending(p, f)'
    BY <2>8 DEF Pending
  <2>12. QED
    BY <2>4, <2>5, <2>6, <2>7, <2>10, <2>11
<1>17. tool' # NoLetter => tool'[3] \in routed'[tool'[2]]
  BY <1>2, <1>7, <1>9
<1>18. QED
  BY <1>3, <1>11, <1>12, <1>15, <1>16, <1>17, CopyStep


-----------------------------------------------------------------------------
(* The inductive invariant, and what follows from it *)

LEMMA InitInvariant == Init => IInv
<1> SUFFICES ASSUME Init PROVE IInv
  OBVIOUS
<1>1. /\ \A q \in Queues, e \in Events :
           ready[q][e] = 0 /\ dlq[q][e] = 0 /\ dropped[q][e] = 0 /\ effects[q][e] = 0
      /\ \A q \in Queues : routed[q] = {} /\ inbox[q] = {}
      /\ owned = {} /\ tool = NoLetter
  BY DEF Init, None
<1>2. (CHOOSE e \in Events : TRUE) \in Events
  BY ConsumerAssumption
<1>3. TypeOK
  <2>1. /\ ready \in [Queues -> [Events -> Nat]] /\ dlq \in [Queues -> [Events -> Nat]]
        /\ dropped \in [Queues -> [Events -> Nat]] /\ effects \in [Queues -> [Events -> Nat]]
    BY DEF Init, None
  <2>2. holds \in [Slots -> Events] /\ pc \in [Slots -> Working \union {"free"}]
    BY <1>2 DEF Init
  <2>3. QED
    BY <2>1, <2>2, ConsumerAssumption DEF Init, TypeOK
<1>4. \A q, e : Unanswered(q, e) = {}
  BY <1>1 DEF Unanswered
<1>5. CopiesAccounted
  <2>1. ASSUME NEW q \in Queues, NEW e \in Events
        PROVE  ready[q][e] + dlq[q][e] + Cardinality(Unanswered(q, e)) + MayAdd(q, e)
                 <= Published(e)
    <3>1. Cardinality(Unanswered(q, e)) = 0
      BY <1>4, FS_EmptySet
    <3>2. MayAdd(q, e) = 0 /\ sent[e] = 0 /\ replays = 0
      BY <1>1 DEF MayAdd, Init
    <3>3. Published(e) = 0
      BY <3>2, ConsumerAssumption DEF Published
    <3>4. QED
      BY <1>1, <3>1, <3>2, <3>3
  <2>2. QED
    BY <2>1 DEF CopiesAccounted
<1>6. EffectOnce /\ NoSilentLoss
  BY <1>1 DEF EffectOnce, NoSilentLoss
<1>7. \A s \in Slots : pc[s] = "free" /\ tries[s] = 0
  BY DEF Init
<1>8. HandlersExclusive /\ TriesLeft
  BY <1>7, SlotQueue, ConsumerAssumption DEF HandlersExclusive, TriesLeft
<1>9. CopiesRouted
  BY <1>1, <1>7 DEF CopiesRouted
<1>10. QED
  BY <1>3, <1>5, <1>6, <1>8, <1>9 DEF IInv

LEMMA StepInvariant ==
  ASSUME IInv, [Next]_vars
  PROVE  IInv'
<1>1. CASE \E e \in Events : Publish(e)
  BY <1>1, PublishStep
<1>2. CASE \E q \in Queues : Consume(q) \/ Crash(q) \/ LoseChannel(q) \/ Close(q) \/ Reopen(q)
  BY <1>2, LifecycleStep, RequeuingStep
<1>3. CASE \E s \in Slots : Deliver(s)
  BY <1>3, DeliverStep
<1>4. CASE \E s \in Slots : Handle(s)
  <2>1. PICK s \in Slots : Handle(s)
    BY <1>4
  <2>2. CASE Admit(s) \/ Refuse(s) \/ SeeDuplicate(s) \/ Commit(s) \/ CancelHandler(s)
    BY <2>2, HandlerSteps
  <2>3. CASE InsertInbox(s)
    BY <2>3, InsertInboxStep
  <2>4. CASE TryFails(s) \/ TimeoutAfterCommit(s)
    BY <2>4, TryFailsStep
  <2>5. CASE Ack(s) \/ Reject(s)
    BY <2>5, FinishStep
  <2>6. QED
    BY <2>1, <2>2, <2>3, <2>4, <2>5 DEF Handle
<1>5. CASE Replay
  BY <1>5, ReplayGetStep, LetterStep DEF Replay
<1>6. CASE UNCHANGED vars
  <2>1. UNCHANGED <<declared, routed, ready, dlq, closing, pc, holds, owned, tries, inbox, effects,
                    sent, tool, replayTries, replays, dropped, faults>>
    BY <1>6 DEF vars, delivery, service, replay
  <2>2. \A q \in Queues, e \in Events :
          /\ Unanswered(q, e)' = Unanswered(q, e) /\ MayAdd(q, e)' = MayAdd(q, e)
          /\ Published(e)' = Published(e)
    BY <2>1 DEF Unanswered, MayAdd, Published
  <2>3. TypeOK' /\ EffectOnce'
    BY <2>1, IInvParts DEF TypeOK, EffectOnce
  <2>4. NoSilentLoss'
    BY <2>1, IInvParts DEF NoSilentLoss, Pending, Unanswered
  <2>5. HandlersExclusive' /\ TriesLeft' /\ CopiesRouted'
    BY <2>1, IInvParts DEF HandlersExclusive, Blocked, TriesLeft, CopiesRouted
  <2>6. CopiesAccounted'
    BY <2>1, <2>2, IInvParts DEF CopiesAccounted
  <2>7. QED
    BY <2>3, <2>4, <2>5, <2>6 DEF IInv
<1>7. QED
  BY <1>1, <1>2, <1>3, <1>4, <1>5, <1>6 DEF Next

\* The inductive invariant, conjunct by conjunct, holds in every reachable state.
THEOREM Invariant == Spec => []IInv
<1>1. IInv /\ [Next]_vars => IInv'
  BY StepInvariant
<1>2. QED
  BY InitInvariant, <1>1, PTL DEF Spec

\* Every variable keeps its type; in particular no queue ever gives away a copy that
\* it does not have.
THEOREM TypeCorrect == Spec => []TypeOK
<1>1. IInv => TypeOK
  BY DEF IInv
<1>2. QED
  BY <1>1, Invariant, PTL

\* Redelivery, replay, concurrent deliveries, retries after a commit that timed out:
\* a handler takes effect once per event, exactly when the inbox has the event.
THEOREM EffectOnceHolds == Spec => []EffectOnce
<1>1. IInv => EffectOnce
  BY DEF IInv
<1>2. QED
  BY <1>1, Invariant, PTL

\* An event that reached a queue is handled, or a copy of it waits somewhere, or the
\* replay tool made the broker discard one.
THEOREM NoSilentLossHolds == Spec => []NoSilentLoss
<1>1. IInv => NoSilentLoss
  BY DEF IInv
<1>2. QED
  BY <1>1, Invariant, PTL

\* A queue with its worker, its dead letters and the replay tool accounts for at most
\* one copy per publication of the relay and per try of the tool's calls, lost channels and crashes included.
THEOREM CopiesConservedHolds == Spec => []CopiesConserved
<1>1. ASSUME IInv, NEW q \in Queues, NEW e \in Events
      PROVE  Copies(q, e) <= Published(e)
  <2>1. (IF tool = <<"got", q, e>> THEN 1 ELSE 0) <= MayAdd(q, e)
    <3>1. PublishTries - replayTries \in Nat /\ PublishTries - replayTries >= 1
      BY <1>1, IInvParts, ConsumerAssumption DEF TypeOK
    <3>2. QED
      BY <3>1 DEF MayAdd, NoLetter
  <2>2. QED
    BY <1>1, <2>1, CopiesBefore DEF Copies
<1>2. IInv => CopiesConserved
  BY <1>1 DEF CopiesConserved
<1>3. QED
  BY <1>2, Invariant, PTL


-----------------------------------------------------------------------------
(* The queues implement an idempotent consumer *)

Waits(q, e) == ready[q][e] > 0 \/ Unanswered(q, e) # {}
Parked(q, e) == dlq[q][e] > 0 \/ tool \in {"got", "sent"} \X {q} \X {e}

WaitingEvents == [q \in Queues |-> {e \in Events : Waits(q, e)}]
ParkedEvents == [q \in Queues |-> {e \in Events : Parked(q, e)}]

\* The promise, read with the sets of events that wait and that are parked.
LEMMA PromiseRead ==
  /\ Promise!vars = <<routed, WaitingEvents, ParkedEvents, effects>>
  /\ Promise!Init <=>
       /\ routed = [q \in Queues |-> {}] /\ WaitingEvents = [q \in Queues |-> {}]
       /\ ParkedEvents = [q \in Queues |-> {}]
       /\ effects = [q \in Queues |-> [e \in Events |-> 0]]
  /\ \A q, e : Promise!Apply(q, e) <=>
       /\ e \in routed[q] /\ effects[q][e] = 0
       /\ effects' = [effects EXCEPT ![q][e] = effects[q][e] + 1]
       /\ UNCHANGED <<routed, WaitingEvents, ParkedEvents>>
  /\ \A q, e : Promise!Finish(q, e) <=>
       /\ e \in WaitingEvents[q] /\ effects[q][e] > 0
       /\ WaitingEvents' = [WaitingEvents EXCEPT ![q] = WaitingEvents[q] \ {e}]
       /\ UNCHANGED <<routed, ParkedEvents, effects>>
  /\ \A q, e : Promise!Park(q, e) <=>
       /\ e \in WaitingEvents[q]
       /\ ParkedEvents' = [ParkedEvents EXCEPT ![q] = ParkedEvents[q] \union {e}]
       /\ \/ UNCHANGED WaitingEvents
          \/ WaitingEvents' = [WaitingEvents EXCEPT ![q] = WaitingEvents[q] \ {e}]
       /\ UNCHANGED <<routed, effects>>
  /\ \A q, e, to : Promise!Release(q, e, to) <=>
       /\ e \in ParkedEvents[q]
       /\ ParkedEvents' = [ParkedEvents EXCEPT ![q] = ParkedEvents[q] \ {e}]
       /\ Promise!Routed(e, to)
       /\ UNCHANGED effects
BY DEF Promise!vars, Promise!Init, Promise!Routed, Promise!Apply, Promise!Finish, Promise!Park,
       Promise!Release, WaitingEvents, ParkedEvents, Waits, Parked

LEMMA RoutedRead ==
  ASSUME NEW e, NEW to
  PROVE  Promise!Routed(e, to) <=>
       /\ routed' = [q \in Queues |-> IF q \in to THEN routed[q] \union {e} ELSE routed[q]]
       /\ WaitingEvents' = [q \in Queues |-> IF q \in to THEN WaitingEvents[q] \union {e}
                                                         ELSE WaitingEvents[q]]
BY DEF Promise!Routed, WaitingEvents, Waits

\* The abstract sets after a step, from what becomes of each event.
LEMMA WaitingSame ==
  ASSUME \A q \in Queues, e \in Events : Waits(q, e)' <=> Waits(q, e)
  PROVE  WaitingEvents' = WaitingEvents
BY DEF WaitingEvents

LEMMA ParkedSame ==
  ASSUME \A q \in Queues, e \in Events : Parked(q, e)' <=> Parked(q, e)
  PROVE  ParkedEvents' = ParkedEvents
BY DEF ParkedEvents

LEMMA WaitingLess ==
  ASSUME NEW p \in Queues, NEW f \in Events,
         \A q \in Queues, e \in Events : Waits(q, e)' <=> Waits(q, e) /\ (q # p \/ e # f)
  PROVE  WaitingEvents' = [WaitingEvents EXCEPT ![p] = WaitingEvents[p] \ {f}]
BY DEF WaitingEvents

LEMMA ParkedLess ==
  ASSUME NEW p \in Queues, NEW f \in Events,
         \A q \in Queues, e \in Events : Parked(q, e)' <=> Parked(q, e) /\ (q # p \/ e # f)
  PROVE  ParkedEvents' = [ParkedEvents EXCEPT ![p] = ParkedEvents[p] \ {f}]
BY DEF ParkedEvents

LEMMA ParkedMore ==
  ASSUME NEW p \in Queues, NEW f \in Events,
         \A q \in Queues, e \in Events : Parked(q, e)' <=> Parked(q, e) \/ (q = p /\ e = f)
  PROVE  ParkedEvents' = [ParkedEvents EXCEPT ![p] = ParkedEvents[p] \union {f}]
BY DEF ParkedEvents

\* The exchange makes the event wait at the queues it reaches.
LEMMA RouteRefines ==
  ASSUME IInv, NEW e \in Events, Route(e), UNCHANGED <<holds, owned>>,
         NEW to, to = Bindings[e] \intersect declared
  PROVE  Promise!Routed(e, to)
<1>1. /\ \A q \in Queues, f \in Events :
           ready'[q][f] = IF q \in to /\ f = e THEN ready[q][f] + 1 ELSE ready[q][f]
      /\ routed' = [q \in Queues |-> IF q \in to THEN routed[q] \union {e} ELSE routed[q]]
  <2>1. /\ \A q \in Queues, f \in Events :
             ready'[q][f] = IF q \in Bindings[e] \intersect declared /\ f = e
                            THEN ready[q][f] + 1 ELSE ready[q][f]
    BY RouteStep
  <2>2. routed' = [q \in Queues |-> IF q \in to THEN routed[q] \union {e} ELSE routed[q]]
    BY DEF Route
  <2>3. QED
    BY <2>1, <2>2
<1>2. \A q \in Queues, f \in Events : Waits(q, f)' <=> Waits(q, f) \/ (q \in to /\ f = e)
  <2>1. \A q \in Queues, f \in Events :
          ready'[q][f] > 0 <=> ready[q][f] > 0 \/ (q \in to /\ f = e)
    BY <1>1, CopiesBefore
  <2>2. \A q, f : Unanswered(q, f)' = Unanswered(q, f)
    BY DEF Unanswered
  <2>3. QED
    BY <2>1, <2>2 DEF Waits
<1>3. WaitingEvents' = [q \in Queues |-> IF q \in to THEN WaitingEvents[q] \union {e}
                                                     ELSE WaitingEvents[q]]
  BY <1>2 DEF WaitingEvents
<1>4. QED
  BY <1>1, <1>3, RoutedRead

LEMMA NothingRouted ==
  ASSUME IInv, NEW e, UNCHANGED <<routed, ready, holds, owned>>
  PROVE  Promise!Routed(e, {}) /\ WaitingEvents' = WaitingEvents
<1>1. WaitingEvents' = WaitingEvents
  BY DEF WaitingEvents, Waits, Unanswered
<1>2. routed' = [q \in Queues |-> routed[q]]
  BY IInvParts DEF TypeOK
<1>3. WaitingEvents = [q \in Queues |-> WaitingEvents[q]]
  BY DEF WaitingEvents
<1>4. QED
  BY <1>1, <1>2, <1>3, RoutedRead


\* The exchange has the event at no queue, or at those that are bound and declared.
LEMMA ReachRefines ==
  ASSUME NEW e \in Events, NEW to \in SUBSET Queues, Promise!Routed(e, to),
         UNCHANGED <<ParkedEvents, effects>>
  PROVE  Promise!Next
<1>1. Promise!Reach(e, to)
  BY DEF Promise!Reach, ParkedEvents, Parked
<1>2. QED
  BY <1>1 DEF Promise!Next

LEMMA PublishRefines ==
  ASSUME IInv, NEW e \in Events, Publish(e)
  PROVE  Promise!Next
<1>1. PICK to : to = Bindings[e] \intersect declared
  OBVIOUS
<1>2. to \in SUBSET Queues
  BY <1>1, IInvParts DEF TypeOK
<1>3. Route(e) /\ UNCHANGED <<holds, owned, dlq, tool, effects>>
  BY DEF Publish, delivery, service, replay
<1>4. Promise!Routed(e, to)
  BY <1>1, <1>3, RouteRefines
<1>5. ParkedEvents' = ParkedEvents
  BY <1>3 DEF ParkedEvents, Parked
<1>6. QED
  BY <1>2, <1>3, <1>4, <1>5, ReachRefines

\* A step that only moves copies about is no step of the promise.
LEMMA StutterRefines ==
  ASSUME UNCHANGED <<routed, effects>>,
         \A q \in Queues, e \in Events : Waits(q, e)' <=> Waits(q, e),
         \A q \in Queues, e \in Events : Parked(q, e)' <=> Parked(q, e)
  PROVE  UNCHANGED Promise!vars
<1>1. WaitingEvents' = WaitingEvents
  BY WaitingSame
<1>2. ParkedEvents' = ParkedEvents
  BY ParkedSame
<1>3. QED
  BY <1>1, <1>2 DEF Promise!vars, WaitingEvents, ParkedEvents, Waits, Parked

LEMMA DeliverRefines ==
  ASSUME IInv, NEW s \in Slots, Deliver(s)
  PROVE  UNCHANGED Promise!vars
<1>1. PICK e \in Events : HandedOver(s, e)
  BY DEF Deliver, HandedOver
<1>2. UNCHANGED <<routed, effects, dlq, tool>>
  BY DEF Deliver, service, replay
<1>3. /\ \A q \in Queues, f \in Events : (q # s[1] \/ f # e) => ready'[q][f] = ready[q][f]
      /\ Unanswered(s[1], e)' = Unanswered(s[1], e) \union {s}
      /\ \A q \in Queues, f \in Events :
           (q # s[1] \/ f # e) => Unanswered(q, f)' = Unanswered(q, f)
  BY <1>1, DeliveredCopy
<1>4. \A q \in Queues, f \in Events : Waits(q, f)' <=> Waits(q, f)
  BY <1>1, <1>3 DEF Waits, HandedOver
<1>5. \A q \in Queues, f \in Events : Parked(q, f)' <=> Parked(q, f)
  BY <1>2 DEF Parked
<1>6. QED
  BY <1>2, <1>4, <1>5, StutterRefines

LEMMA RequeueRefines ==
  ASSUME IInv, NEW q \in Queues, Crash(q) \/ LoseChannel(q)
  PROVE  UNCHANGED Promise!vars
<1>1. /\ Requeue(q) /\ owned' = {s \in owned : s[1] # q}
      /\ UNCHANGED <<routed, dlq, holds, effects, tool>>
  BY DEF Crash, LoseChannel, service, replay
<1>2. /\ \A e \in Events : ready'[q][e] = ready[q][e] + Cardinality(Unanswered(q, e))
      /\ \A p \in Queues \ {q} : ready'[p] = ready[p]
      /\ \A e \in Events : Unanswered(q, e)' = {}
      /\ \A p \in Queues \ {q}, e \in Events : Unanswered(p, e)' = Unanswered(p, e)
  BY <1>1, RequeueStep
<1>3. \A e \in Events : Cardinality(Unanswered(q, e)) = 0 <=> Unanswered(q, e) = {}
  BY UnansweredFinite, IInvParts DEF TypeOK
<1>4. \A e \in Events : ready'[q][e] > 0 <=> ready[q][e] > 0 \/ Unanswered(q, e) # {}
  BY <1>2, <1>3, CopiesBefore
<1>5. \A p \in Queues, e \in Events : Waits(p, e)' <=> Waits(p, e)
  BY <1>2, <1>4 DEF Waits
<1>6. \A p \in Queues, e \in Events : Parked(p, e)' <=> Parked(p, e)
  BY <1>1 DEF Parked
<1>7. QED
  BY <1>1, <1>5, <1>6, StutterRefines

\* A handler that commits takes effect, for the first time.
LEMMA EffectRefines ==
  ASSUME IInv, NEW s \in Slots, pc[s] = "writing", Effect(s),
         UNCHANGED <<routed, ready, dlq, holds, owned, tool>>
  PROVE  Promise!Next
<1>1. s[1] \in Queues /\ holds[s] \in Events
  BY SlotQueue, IInvParts DEF TypeOK
<1>2. holds[s] \in routed[s[1]]
  BY IInvParts DEF CopiesRouted
<1>3. /\ effects[s[1]][holds[s]] = 0
      /\ effects' = [effects EXCEPT ![s[1]][holds[s]] = effects[s[1]][holds[s]] + 1]
  BY EffectStep
<1>4. UNCHANGED <<routed, WaitingEvents, ParkedEvents>>
  BY DEF WaitingEvents, ParkedEvents, Waits, Parked, Unanswered
<1>5. PICK q \in Queues, e \in Events : q = s[1] /\ e = holds[s]
  BY <1>1
<1>6. Promise!Apply(q, e)
  BY <1>2, <1>3, <1>4, <1>5, PromiseRead
<1>7. QED
  BY <1>6 DEF Promise!Next

\* The other steps of a handler leave the promise alone.
LEMMA HandlerRefines ==
  ASSUME IInv, NEW s \in Slots,
         \/ Admit(s) \/ Refuse(s) \/ InsertInbox(s) \/ SeeDuplicate(s) \/ Commit(s)
         \/ TryFails(s) \/ TimeoutAfterCommit(s) \/ CancelHandler(s)
  PROVE  [Promise!Next]_(Promise!vars)
<1>1. UNCHANGED <<routed, ready, dlq, holds, owned, tool>>
  BY DEF Admit, Refuse, InsertInbox, SeeDuplicate, Commit, TryFails, TimeoutAfterCommit,
         CancelHandler, replay
<1>2. (pc[s] = "writing" /\ Effect(s)) \/ UNCHANGED effects
  BY DEF Admit, Refuse, InsertInbox, SeeDuplicate, Commit, TryFails, TimeoutAfterCommit,
         CancelHandler, service
<1>3. CASE pc[s] = "writing" /\ Effect(s)
  BY <1>1, <1>3, EffectRefines
<1>4. CASE UNCHANGED effects
  <2>1. \A q \in Queues, e \in Events : (Waits(q, e)' <=> Waits(q, e)) /\ (Parked(q, e)' <=> Parked(q, e))
    BY <1>1 DEF Waits, Parked, Unanswered
  <2>2. QED
    BY <1>1, <1>4, <2>1, StutterRefines
<1>5. QED
  BY <1>2, <1>3, <1>4


\* The last copy of a handled event is acknowledged, or there is another.
LEMMA AckRefines ==
  ASSUME IInv, NEW s \in Slots, Ack(s)
  PROVE  [Promise!Next]_(Promise!vars)
<1>1. PICK q \in Queues, e \in Events : q = s[1] /\ e = holds[s]
  BY SlotQueue, IInvParts DEF TypeOK
<1>2. pc[s] = "handled" /\ owned' = owned \ {s} /\ UNCHANGED <<routed, ready, dlq, holds, tool, effects>>
  BY DEF Ack, Release, service, replay
<1>3. \A p, f : Unanswered(p, f)' = Unanswered(p, f) \ {s}
  BY <1>2 DEF Unanswered
<1>4. \A p \in Queues, f \in Events : Parked(p, f)' <=> Parked(p, f)
  BY <1>2 DEF Parked
<1>5. \A p \in Queues, f \in Events : (p # q \/ f # e) => (Waits(p, f)' <=> Waits(p, f))
  BY <1>1, <1>2, <1>3 DEF Waits, Unanswered
<1>6. Waits(q, e)' => Waits(q, e)
  BY <1>2, <1>3 DEF Waits
<1>7. CASE Waits(q, e)' <=> Waits(q, e)
  <2>1. \A p \in Queues, f \in Events : Waits(p, f)' <=> Waits(p, f)
    BY <1>5, <1>7
  <2>2. QED
    BY <1>2, <1>4, <2>1, StutterRefines
<1>8. CASE Waits(q, e) /\ ~Waits(q, e)'
  <2>1. effects[q][e] > 0
    BY <1>1, <1>2, IInvParts DEF HandlersExclusive, EffectOnce
  <2>2. WaitingEvents' = [WaitingEvents EXCEPT ![q] = WaitingEvents[q] \ {e}]
    BY <1>5, <1>8, WaitingLess
  <2>3. ParkedEvents' = ParkedEvents
    BY <1>4, ParkedSame
  <2>4. e \in WaitingEvents[q]
    BY <1>8 DEF WaitingEvents
  <2>5. Promise!Finish(q, e)
    BY <1>2, <2>1, <2>2, <2>3, <2>4, PromiseRead
  <2>6. QED
    BY <2>5 DEF Promise!Next
<1>9. QED
  BY <1>6, <1>7, <1>8

\* A message is dead-lettered, or the broker had taken it back before.
LEMMA RejectRefines ==
  ASSUME IInv, NEW s \in Slots, Reject(s)
  PROVE  [Promise!Next]_(Promise!vars)
<1>1. PICK q \in Queues, e \in Events : q = s[1] /\ e = holds[s]
  BY SlotQueue, IInvParts DEF TypeOK
<1>2. /\ owned' = owned \ {s} /\ UNCHANGED <<routed, ready, holds, tool, effects>>
      /\ dlq' = IF s \in owned THEN [dlq EXCEPT ![q][e] = dlq[q][e] + 1] ELSE dlq
  BY <1>1 DEF Reject, Release, service, replay
<1>3. \A p, f : Unanswered(p, f)' = Unanswered(p, f) \ {s}
  BY <1>2 DEF Unanswered
<1>4. \A p \in Queues, f \in Events : (p # q \/ f # e) => (Waits(p, f)' <=> Waits(p, f))
  BY <1>1, <1>2, <1>3 DEF Waits, Unanswered
<1>5. CASE s \notin owned
  <2>1. \A p \in Queues, f \in Events : (Waits(p, f)' <=> Waits(p, f)) /\ (Parked(p, f)' <=> Parked(p, f))
    BY <1>2, <1>3, <1>5 DEF Waits, Parked, Unanswered
  <2>2. QED
    BY <1>2, <2>1, StutterRefines
<1>6. CASE s \in owned
  <2>1. DlqGains(q, e)
    BY <1>2, <1>6 DEF DlqGains
  <2>2. /\ dlq'[q][e] > 0
        /\ \A p \in Queues, f \in Events : (p # q \/ f # e) => dlq'[p][f] = dlq[p][f]
    BY <2>1, DlqMore
  <2>3. \A p \in Queues, f \in Events : Parked(p, f)' <=> Parked(p, f) \/ (p = q /\ f = e)
    BY <1>2, <2>2 DEF Parked
  <2>4. ParkedEvents' = [ParkedEvents EXCEPT ![q] = ParkedEvents[q] \union {e}]
    BY <2>3, ParkedMore
  <2>5. Waits(q, e)
    BY <1>1, <1>6 DEF Waits, Unanswered
  <2>6. e \in WaitingEvents[q]
    BY <2>5 DEF WaitingEvents
  <2>7. \/ UNCHANGED WaitingEvents
        \/ WaitingEvents' = [WaitingEvents EXCEPT ![q] = WaitingEvents[q] \ {e}]
    <3>1. CASE Waits(q, e)'
      <4>1. \A p \in Queues, f \in Events : Waits(p, f)' <=> Waits(p, f)
        BY <1>4, <2>5, <3>1
      <4>2. QED
        BY <4>1, WaitingSame
    <3>2. CASE ~Waits(q, e)'
      BY <1>4, <3>2, WaitingLess
    <3>3. QED
      BY <3>1, <3>2
  <2>8. Promise!Park(q, e)
    BY <1>2, <2>4, <2>6, <2>7, PromiseRead
  <2>9. QED
    BY <2>8 DEF Promise!Next
<1>7. QED
  BY <1>5, <1>6

\* What the tool takes from the dead letters is parked still.
LEMMA ReplayGetRefines ==
  ASSUME IInv, NEW q \in Queues, NEW e \in Events, ReplayGet(q, e)
  PROVE  UNCHANGED Promise!vars
<1>1. /\ tool = NoLetter /\ dlq[q][e] > 0 /\ tool' = <<"got", q, e>>
      /\ dlq' = [dlq EXCEPT ![q][e] = dlq[q][e] - 1]
      /\ UNCHANGED <<routed, ready, holds, owned, effects>>
  BY DEF ReplayGet, delivery, service
<1>3. \A p \in Queues, f \in Events : (p # q \/ f # e) => dlq'[p][f] = dlq[p][f]
  <2>1. DlqLoses(q, e)
    BY <1>1 DEF DlqLoses
  <2>2. QED
    BY <1>1, <2>1, DlqLess
<1>4. \A p \in Queues, f \in Events :
        /\ tool \notin {"got", "sent"} \X {p} \X {f}
        /\ tool' \in {"got", "sent"} \X {p} \X {f} <=> p = q /\ f = e
  BY <1>1 DEF NoLetter
<1>5. \A p \in Queues, f \in Events : Parked(p, f)' <=> Parked(p, f)
  BY <1>1, <1>3, <1>4 DEF Parked
<1>6. \A p \in Queues, f \in Events : Waits(p, f)' <=> Waits(p, f)
  BY <1>1 DEF Waits, Unanswered
<1>7. QED
  BY <1>1, <1>5, <1>6, StutterRefines

\* The tool dies: its letter is back among the dead letters.
LEMMA ReplayCrashRefines ==
  ASSUME IInv, ReplayCrash
  PROVE  UNCHANGED Promise!vars
<1>1. /\ tool # NoLetter /\ tool' = NoLetter
      /\ dlq' = [dlq EXCEPT ![tool[2]][tool[3]] = dlq[tool[2]][tool[3]] + 1]
      /\ UNCHANGED <<routed, ready, holds, owned, effects>>
  BY DEF ReplayCrash, delivery, service
<1>2. PICK q \in Queues, e \in Events : q = tool[2] /\ e = tool[3]
  BY <1>1, LetterType
<1>3. DlqGains(q, e)
  BY <1>1, <1>2 DEF DlqGains
<1>4. /\ dlq'[q][e] > 0
      /\ \A p \in Queues, f \in Events : (p # q \/ f # e) => dlq'[p][f] = dlq[p][f]
  BY <1>3, DlqMore
<1>5. \A p \in Queues, f \in Events :
        /\ tool' \notin {"got", "sent"} \X {p} \X {f}
        /\ tool \in {"got", "sent"} \X {p} \X {f} <=> p = q /\ f = e
  <2>1. tool[1] \in {"got", "sent"} /\ tool = <<tool[1], q, e>>
    BY <1>1, <1>2, LetterType
  <2>2. PICK at \in {"got", "sent"} : tool = <<at, q, e>>
    BY <2>1
  <2>3. QED
    BY <1>1, <2>2 DEF NoLetter
<1>6. \A p \in Queues, f \in Events : Parked(p, f)' <=> Parked(p, f)
  BY <1>4, <1>5 DEF Parked
<1>7. \A p \in Queues, f \in Events : Waits(p, f)' <=> Waits(p, f)
  BY <1>1 DEF Waits, Unanswered
<1>8. QED
  BY <1>1, <1>6, <1>7, StutterRefines


\* The letter is in no queue and in nobody's hands any more: parked if another one is.
LEMMA LetterGone ==
  ASSUME IInv, tool # NoLetter, tool' = NoLetter, dlq' = dlq,
         NEW q \in Queues, NEW e \in Events, q = tool[2], e = tool[3]
  PROVE  /\ e \in ParkedEvents[q]
         /\ \/ ParkedEvents' = ParkedEvents
            \/ ParkedEvents' = [ParkedEvents EXCEPT ![q] = ParkedEvents[q] \ {e}]
<1>1. PICK at \in {"got", "sent"} : tool = <<at, q, e>>
  BY LetterType
<1>2. \A p \in Queues, f \in Events :
        /\ tool' \notin {"got", "sent"} \X {p} \X {f}
        /\ tool \in {"got", "sent"} \X {p} \X {f} <=> p = q /\ f = e
  BY <1>1 DEF NoLetter
<1>3. e \in ParkedEvents[q]
  BY <1>2 DEF ParkedEvents, Parked
<1>4. CASE dlq[q][e] > 0
  <2>1. \A p \in Queues, f \in Events : Parked(p, f)' <=> Parked(p, f)
    BY <1>2, <1>4 DEF Parked
  <2>2. QED
    BY <1>3, <2>1, ParkedSame
<1>5. CASE ~(dlq[q][e] > 0)
  <2>1. \A p \in Queues, f \in Events : Parked(p, f)' <=> Parked(p, f) /\ (p # q \/ f # e)
    BY <1>2, <1>5 DEF Parked
  <2>2. QED
    BY <1>3, <2>1, ParkedLess
<1>6. QED
  BY <1>4, <1>5

\* The letter is sent to the bound queues and still the tool's to acknowledge.
LEMMA ReplayPublishRefines ==
  ASSUME IInv, ReplayPublish
  PROVE  Promise!Next
<1>1. /\ tool # NoLetter /\ tool[1] = "got" /\ Route(tool[3])
      /\ tool' = <<"sent", tool[2], tool[3]>>
      /\ UNCHANGED <<dlq, holds, owned, effects>>
  BY DEF ReplayPublish, Publishing, delivery, service
<1>2. PICK q \in Queues, e \in Events : q = tool[2] /\ e = tool[3]
  BY <1>1, LetterType
<1>3. PICK to : to = Bindings[e] \intersect declared
  OBVIOUS
<1>4. to \in SUBSET Queues
  BY <1>3, IInvParts DEF TypeOK
<1>5. Promise!Routed(e, to)
  BY <1>1, <1>2, <1>3, RouteRefines
<1>6. tool = <<"got", q, e>> /\ tool' = <<"sent", q, e>>
  BY <1>1, <1>2, LetterType
<1>7. \A p \in Queues, f \in Events : Parked(p, f)' <=> Parked(p, f)
  BY <1>1, <1>6 DEF Parked
<1>8. ParkedEvents' = ParkedEvents
  BY <1>7, ParkedSame
<1>9. QED
  BY <1>1, <1>4, <1>5, <1>8, ReachRefines

\* A try that failed may have put the letter in the bound queues; it is parked still.
LEMMA ReplayTryRefines ==
  ASSUME IInv, ReplayTryFails
  PROVE  [Promise!Next]_(Promise!vars)
<1>1. /\ tool # NoLetter /\ (Route(tool[3]) \/ UNCHANGED <<ready, routed>>)
      /\ UNCHANGED <<dlq, holds, owned, tool, effects>>
  BY DEF ReplayTryFails, Publishing, Attempted, delivery, service
<1>2. PICK e \in Events : e = tool[3]
  BY <1>1, LetterType
<1>3. \A p \in Queues, f \in Events : Parked(p, f)' <=> Parked(p, f)
  BY <1>1 DEF Parked
<1>4. ParkedEvents' = ParkedEvents
  BY <1>3, ParkedSame
<1>5. CASE Route(tool[3])
  <2>1. PICK to : to = Bindings[e] \intersect declared
    OBVIOUS
  <2>2. to \in SUBSET Queues
    BY <2>1, IInvParts DEF TypeOK
  <2>3. Promise!Routed(e, to)
    BY <1>1, <1>2, <1>5, <2>1, RouteRefines
  <2>4. QED
    BY <1>1, <1>4, <2>2, <2>3, ReachRefines
<1>6. CASE UNCHANGED <<ready, routed>>
  <2>1. \A p \in Queues, f \in Events : Waits(p, f)' <=> Waits(p, f)
    BY <1>1, <1>6 DEF Waits, Unanswered
  <2>2. QED
    BY <1>1, <1>3, <1>6, <2>1, StutterRefines
<1>7. QED
  BY <1>1, <1>5, <1>6

\* The tool is done with a letter: acknowledged, or discarded, whether the exchange
\* had it or not.
LEMMA ReplayDoneRefines ==
  ASSUME IInv, ReplayAck \/ ReplayPublishFails
  PROVE  [Promise!Next]_(Promise!vars)
<1>1. /\ tool # NoLetter /\ tool' = NoLetter
      /\ Route(tool[3]) \/ UNCHANGED <<ready, routed>>
      /\ UNCHANGED <<dlq, holds, owned, effects>>
  BY DEF ReplayAck, ReplayPublishFails, Publishing, Attempted, delivery, service
<1>2. PICK q \in Queues, e \in Events : q = tool[2] /\ e = tool[3]
  BY <1>1, LetterType
<1>3. /\ e \in ParkedEvents[q]
      /\ \/ ParkedEvents' = ParkedEvents
         \/ ParkedEvents' = [ParkedEvents EXCEPT ![q] = ParkedEvents[q] \ {e}]
  BY <1>1, <1>2, LetterGone
<1>4. ASSUME NEW to \in SUBSET Queues, Promise!Routed(e, to)
      PROVE  Promise!Next
  <2>1. CASE ParkedEvents' = ParkedEvents
    BY <1>1, <1>4, <2>1, ReachRefines
  <2>2. CASE ParkedEvents' = [ParkedEvents EXCEPT ![q] = ParkedEvents[q] \ {e}]
    <3>1. Promise!Release(q, e, to)
      BY <1>1, <1>3, <1>4, <2>2, PromiseRead
    <3>2. QED
      BY <3>1 DEF Promise!Next
  <2>3. QED
    BY <1>3, <2>1, <2>2
<1>5. CASE Route(tool[3])
  <2>1. PICK to : to = Bindings[e] \intersect declared
    OBVIOUS
  <2>2. to \in SUBSET Queues
    BY <2>1, IInvParts DEF TypeOK
  <2>3. Promise!Routed(e, to)
    BY <1>1, <1>2, <1>5, <2>1, RouteRefines
  <2>4. QED
    BY <1>4, <2>2, <2>3
<1>6. CASE UNCHANGED <<ready, routed>>
  <2>1. Promise!Routed(e, {})
    BY <1>1, <1>6, NothingRouted
  <2>2. QED
    BY <1>4, <2>1
<1>7. QED
  BY <1>1, <1>5, <1>6

LEMMA InitRefines == Init => Promise!Init
<1> SUFFICES ASSUME Init PROVE Promise!Init
  OBVIOUS
<1>1. \A q \in Queues, e \in Events : ~Waits(q, e) /\ ~Parked(q, e)
  BY DEF Init, None, Waits, Parked, Unanswered, NoLetter
<1>2. WaitingEvents = [q \in Queues |-> {}] /\ ParkedEvents = [q \in Queues |-> {}]
  BY <1>1 DEF WaitingEvents, ParkedEvents
<1>3. QED
  BY <1>2, PromiseRead DEF Init, None

LEMMA StepRefines ==
  ASSUME IInv, [Next]_vars
  PROVE  [Promise!Next]_(Promise!vars)
<1>1. ASSUME UNCHANGED <<routed, ready, dlq, holds, owned, tool, effects>>
      PROVE  UNCHANGED Promise!vars
  <2>1. \A q \in Queues, e \in Events : (Waits(q, e)' <=> Waits(q, e)) /\ (Parked(q, e)' <=> Parked(q, e))
    BY <1>1 DEF Waits, Parked, Unanswered
  <2>2. QED
    BY <1>1, <2>1, StutterRefines
<1>2. CASE \E e \in Events : Publish(e)
  BY <1>2, PublishRefines
<1>3. CASE \E q \in Queues : Consume(q) \/ Close(q) \/ Reopen(q)
  BY <1>1, <1>3 DEF Consume, Close, Reopen, delivery, service, replay
<1>4. CASE \E q \in Queues : Crash(q) \/ LoseChannel(q)
  BY <1>4, RequeueRefines
<1>5. CASE \E s \in Slots : Deliver(s)
  BY <1>5, DeliverRefines
<1>6. CASE \E s \in Slots : Handle(s)
  BY <1>6, HandlerRefines, AckRefines, RejectRefines DEF Handle
<1>7. CASE Replay
  BY <1>7, ReplayGetRefines, ReplayPublishRefines, ReplayTryRefines, ReplayDoneRefines,
     ReplayCrashRefines DEF Replay
<1>8. CASE UNCHANGED vars
  BY <1>1, <1>8 DEF vars, delivery, service, replay
<1>9. QED
  BY <1>2, <1>3, <1>4, <1>5, <1>6, <1>7, <1>8 DEF Next

\* Queues, workers, dead letters and the replay tool keep the promise of an idempotent
\* consumer: at most one effect per event, and no event let go of before it took
\* effect or was parked.
THEOREM PromiseKept == Spec => ImplementsConsumer
<1>1. IInv /\ [Next]_vars => [Promise!Next]_(Promise!vars)
  BY StepRefines
<1>2. QED
  BY InitRefines, <1>1, Invariant, PTL DEF Spec, ImplementsConsumer, Promise!Spec

-----------------------------------------------------------------------------
(* Why every message is answered: the safety under EventuallyAnswered *)

\* A message the broker waits for has a delivery under way with a try left, and a
\* handler that waits for another's inbox row waits for one that waits for nobody.
AnswersComing ==
  /\ \A s \in owned : pc[s] # "free" /\ tries[s] < HandlerTries[s[1]]
  /\ \A s \in Slots : pc[s] = "handling" /\ Blocked(s) =>
       \E r \in Slots \ {s} :
         r[1] = s[1] /\ holds[r] = holds[s] /\ pc[r] = "writing" /\ ~ Blocked(r)

\* Redelivered and concurrent copies of one event never wait for each other in a
\* circle, and no lost channel or crash leaves the broker waiting for an answer
\* that no delivery will give.
THEOREM AnswersComingHolds == Spec => []AnswersComing
<1>1. ASSUME IInv PROVE AnswersComing
  <2>1. \A s \in owned : pc[s] # "free" /\ tries[s] < HandlerTries[s[1]]
    BY <1>1 DEF IInv, TypeOK, CopiesRouted, TriesLeft
  <2>2. ASSUME NEW s \in Slots, Blocked(s)
        PROVE  \E r \in Slots \ {s} :
                 r[1] = s[1] /\ holds[r] = holds[s] /\ pc[r] = "writing" /\ ~ Blocked(r)
    <3>1. PICK r \in Slots \ {s} : r[1] = s[1] /\ pc[r] = "writing" /\ holds[r] = holds[s]
      BY <2>2 DEF Blocked
    <3>2. ~ Blocked(r)
      BY <1>1, <3>1 DEF IInv, HandlersExclusive
    <3>3. QED
      BY <3>1, <3>2
  <2>3. QED
    BY <2>1, <2>2 DEF AnswersComing
<1>2. QED
  BY <1>1, Invariant, PTL
=============================================================================
