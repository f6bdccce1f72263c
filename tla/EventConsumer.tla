---------------------------- MODULE EventConsumer ----------------------------
(***************************************************************************)
(* The consuming side of the event flow: queues bound to the topic         *)
(* exchange, the worker of each queue with its concurrent deliveries, the  *)
(* inbox that makes handlers idempotent, the dead-letter queues and the    *)
(* tool that replays them.                                                 *)
(*                                                                         *)
(* Every service handler has the same shape: one transaction that inserts  *)
(* the event_id into the inbox and, if it was new, the business row and    *)
(* the follow-up outbox event.  The client acknowledges a message after    *)
(* the handler returned and rejects it, without requeueing, after any      *)
(* exception, so that the broker moves it to <queue>.dlq.  A dead-letter   *)
(* queue has no dead-letter exchange of its own.                           *)
(***************************************************************************)
EXTENDS Naturals, FiniteSets

CONSTANTS
  Queues,        \* the queues of the services, one worker process each
  Events,        \* events the producers' relays publish
  Bindings,      \* which queues an event's name routes to
  Prefetch,      \* deliveries the worker of each queue handles at a time
  HandlerTries,  \* RETRY_MAX_ATTEMPTS of one delivery, for each queue
  PublishTries,  \* RETRY_MAX_ATTEMPTS of one publish call of the replay tool
  MaxCopies,     \* bound: copies of one event its relay publishes
  MaxReplays,    \* bound: messages the replay tool takes
  MaxFaults      \* bound: crashes, lost channels, shutdowns

ASSUME ConsumerAssumption ==
  /\ Events # {}
  /\ Bindings \in [Events -> SUBSET Queues]
  /\ Prefetch \in [Queues -> Nat \ {0}]
  /\ HandlerTries \in [Queues -> Nat \ {0}]
  /\ PublishTries \in Nat \ {0}
  /\ MaxCopies \in Nat
  /\ MaxReplays \in Nat
  /\ MaxFaults \in Nat

Slots == UNION {{q} \X (1..Prefetch[q]) : q \in Queues}

VARIABLES
  declared,   \* queues that exist in the broker
  routed,     \* events of which a queue ever received a copy
  ready,      \* copies of each event that wait in each queue
  dlq,        \* copies in each dead-letter queue
  closing,    \* queues whose worker is shutting down
  pc,         \* how far each delivery is
  holds,      \* the event of each delivery
  owned,      \* deliveries the broker still expects an answer to
  tries,      \* failed tries of each delivery
  inbox,      \* event ids committed to each service's inbox
  effects,    \* committed handler effects: business row and follow-up event
  sent,       \* copies published by the relay of each event
  tool,       \* the dead letter the replay tool is at, if any
  replayTries,\* failed tries to publish that letter
  replays,    \* messages the replay tool has taken
  dropped,    \* dead letters the broker discarded
  faults      \* faults so far

NoLetter == <<>>
delivery == <<pc, holds, owned, tries>>
service == <<inbox, effects>>
replay == <<tool, replayTries, replays, dropped>>
vars == <<declared, routed, ready, dlq, closing, delivery, service, sent, replay, faults>>

Working == {"delivered", "handling", "writing", "handled", "rejecting"}

TypeOK ==
  /\ declared \in SUBSET Queues
  /\ routed \in [Queues -> SUBSET Events]
  /\ ready \in [Queues -> [Events -> Nat]]
  /\ dlq \in [Queues -> [Events -> Nat]]
  /\ closing \in SUBSET Queues
  /\ pc \in [Slots -> Working \union {"free"}]
  /\ holds \in [Slots -> Events]
  /\ owned \in SUBSET Slots
  /\ tries \in [Slots -> Nat]
  /\ inbox \in [Queues -> SUBSET Events]
  /\ effects \in [Queues -> [Events -> Nat]]
  /\ sent \in [Events -> 0..MaxCopies]
  /\ \/ tool = NoLetter
     \/ tool \in {"got", "sent"} \X Queues \X Events
  /\ replayTries \in 0..(PublishTries - 1)
  /\ replays \in 0..MaxReplays
  /\ dropped \in [Queues -> [Events -> Nat]]
  /\ faults \in 0..MaxFaults

None == [q \in Queues |-> [e \in Events |-> 0]]

Init ==
  /\ declared = {}
  /\ routed = [q \in Queues |-> {}]
  /\ ready = None
  /\ dlq = None
  /\ closing = {}
  /\ pc = [s \in Slots |-> "free"]
  /\ holds = [s \in Slots |-> CHOOSE e \in Events : TRUE]
  /\ owned = {}
  /\ tries = [s \in Slots |-> 0]
  /\ inbox = [q \in Queues |-> {}]
  /\ effects = None
  /\ sent = [e \in Events |-> 0]
  /\ tool = NoLetter
  /\ replayTries = 0
  /\ replays = 0
  /\ dropped = None
  /\ faults = 0

Fault ==
  /\ faults < MaxFaults
  /\ faults' = faults + 1

-----------------------------------------------------------------------------
(* The broker *)

\* The topic exchange: a copy for every queue that exists and is bound.
Route(e) ==
  LET reached == Bindings[e] \intersect declared IN
  /\ ready' = [q \in Queues |-> IF q \in reached THEN [ready[q] EXCEPT ![e] = @ + 1]
                                                ELSE ready[q]]
  /\ routed' = [q \in Queues |-> IF q \in reached THEN routed[q] \union {e} ELSE routed[q]]

\* The unanswered deliveries of a worker go back to its queue.
Unanswered(q, e) == {s \in owned : s[1] = q /\ holds[s] = e}
RequeueNone(q) == UNCHANGED ready
Requeue(q) ==
  ready' = [ready EXCEPT ![q] = [e \in Events |-> @[e] + Cardinality(Unanswered(q, e))]]

\* A relay publishes an event, once or again.
Publish(e) ==
  /\ sent[e] < MaxCopies
  /\ sent' = [sent EXCEPT ![e] = @ + 1]
  /\ Route(e)
  /\ UNCHANGED <<declared, dlq, closing, delivery, service, replay, faults>>

\* consume: the worker declares its queue, binds it and registers.
Consume(q) ==
  /\ q \notin declared
  /\ declared' = declared \union {q}
  /\ UNCHANGED <<routed, ready, dlq, closing, delivery, service, sent, replay, faults>>

\* The broker hands a message to a worker that has room for it.
Deliver(s) ==
  \E e \in Events :
    /\ s[1] \in declared \ closing
    /\ pc[s] = "free"
    /\ ready[s[1]][e] > 0
    /\ ready' = [ready EXCEPT ![s[1]][e] = @ - 1]
    /\ pc' = [pc EXCEPT ![s] = "delivered"]
    /\ holds' = [holds EXCEPT ![s] = e]
    /\ owned' = owned \union {s}
    /\ UNCHANGED <<declared, routed, dlq, closing, tries, service, sent, replay, faults>>

-----------------------------------------------------------------------------
(* One delivery: message.process around the retried handler *)

Goto(s, where) == pc' = [pc EXCEPT ![s] = where]

\* The consume circuit is closed and the bulkhead has room.
Admit(s) ==
  /\ pc[s] = "delivered"
  /\ Goto(s, "handling")
  /\ UNCHANGED <<declared, routed, ready, dlq, closing, holds, owned, tries, service,
                 sent, replay, faults>>

\* CIRCUIT_OPEN, BULKHEAD_REJECTED or an envelope that does not decode: rejected
\* before the handler saw it.
Refuse(s) ==
  /\ pc[s] = "delivered"
  /\ Goto(s, "rejecting")
  /\ UNCHANGED <<declared, routed, ready, dlq, closing, holds, owned, tries, service,
                 sent, replay, faults>>

\* An uncommitted inbox row of the same event blocks a second insert of it.
NeverBlocked(s) == FALSE
Blocked(s) ==
  \E r \in Slots \ {s} : r[1] = s[1] /\ pc[r] = "writing" /\ holds[r] = holds[s]

\* record_inbox_event inserts the id; the transaction goes on to the business row.
InsertInbox(s) ==
  /\ pc[s] = "handling"
  /\ ~Blocked(s)
  /\ holds[s] \notin inbox[s[1]]
  /\ Goto(s, "writing")
  /\ UNCHANGED <<declared, routed, ready, dlq, closing, holds, owned, tries, service,
                 sent, replay, faults>>

\* The retries end, with the handler's result or with an exception.
EndRetries(s, where) ==
  /\ Goto(s, where)
  /\ tries' = [tries EXCEPT ![s] = 0]

\* ON CONFLICT DO NOTHING: a duplicate, the handler returns False.
SeeDuplicate(s) ==
  /\ pc[s] = "handling"
  /\ ~Blocked(s)
  /\ holds[s] \in inbox[s[1]]
  /\ EndRetries(s, "handled")
  /\ UNCHANGED <<declared, routed, ready, dlq, closing, holds, owned, service,
                 sent, replay, faults>>

\* What the handler's transaction commits.
Effect(s) ==
  /\ inbox' = [inbox EXCEPT ![s[1]] = @ \union {holds[s]}]
  /\ effects' = [effects EXCEPT ![s[1]][holds[s]] = @ + 1]

Commit(s) ==
  /\ pc[s] = "writing"
  /\ Effect(s)
  /\ EndRetries(s, "handled")
  /\ UNCHANGED <<declared, routed, ready, dlq, closing, holds, owned, sent,
                 replay, faults>>

\* A failed try: again while it may be retried, otherwise the message is
\* rejected.  A client error (4xx) is not retried.
AfterTry(s) ==
  \/ /\ tries[s] + 1 < HandlerTries[s[1]]
     /\ tries' = [tries EXCEPT ![s] = @ + 1]
     /\ Goto(s, "handling")
  \/ EndRetries(s, "rejecting")

\* The handler raises or times out and its transaction is rolled back.
TryFails(s) ==
  /\ pc[s] \in {"handling", "writing"}
  /\ AfterTry(s)
  /\ UNCHANGED <<declared, routed, ready, dlq, closing, holds, owned, service, sent,
                 replay, faults>>

\* The time-out strikes while the commit is on its way: it takes effect.
TimeoutAfterCommit(s) ==
  /\ pc[s] = "writing"
  /\ Effect(s)
  /\ AfterTry(s)
  /\ UNCHANGED <<declared, routed, ready, dlq, closing, holds, owned, sent, replay, faults>>

\* The delivery ends; an answer on a channel that was lost has no effect.
Release(s) ==
  /\ Goto(s, "free")
  /\ owned' = owned \ {s}

Ack(s) ==
  /\ pc[s] = "handled"
  /\ Release(s)
  /\ UNCHANGED <<declared, routed, ready, dlq, closing, holds, tries, service, sent,
                 replay, faults>>

\* reject(requeue=False): the broker dead-letters the message.
RejectDropping(s) ==
  /\ pc[s] = "rejecting"
  /\ Release(s)
  /\ UNCHANGED <<declared, routed, ready, dlq, closing, holds, tries, service, sent,
                 replay, faults>>
RejectUnowned(s) ==
  /\ pc[s] = "rejecting"
  /\ dlq' = [dlq EXCEPT ![s[1]][holds[s]] = @ + 1]
  /\ Release(s)
  /\ UNCHANGED <<declared, routed, ready, closing, holds, tries, service, sent,
                 replay, faults>>
Reject(s) ==
  /\ pc[s] = "rejecting"
  /\ dlq' = IF s \in owned THEN [dlq EXCEPT ![s[1]][holds[s]] = @ + 1] ELSE dlq
  /\ Release(s)
  /\ UNCHANGED <<declared, routed, ready, closing, holds, tries, service, sent,
                 replay, faults>>

-----------------------------------------------------------------------------
(* The worker process *)

\* The process dies: transactions roll back, messages go back to the queue.
Crash(q) ==
  /\ Fault
  /\ Requeue(q)
  /\ pc' = [s \in Slots |-> IF s[1] = q THEN "free" ELSE pc[s]]
  /\ owned' = {s \in owned : s[1] # q}
  /\ tries' = [s \in Slots |-> IF s[1] = q THEN 0 ELSE tries[s]]
  /\ closing' = closing \ {q}
  /\ UNCHANGED <<declared, routed, dlq, holds, service, sent, replay>>

\* The channel is lost and reopened (connect_robust): messages go back to the
\* queue while their handlers run on.
LoseChannel(q) ==
  /\ Fault
  /\ q \notin closing
  /\ Requeue(q)
  /\ owned' = {s \in owned : s[1] # q}
  /\ UNCHANGED <<declared, routed, dlq, closing, pc, holds, tries, service, sent, replay>>

\* close: no more deliveries; running handlers get REQUEST_TIMEOUT_SECONDS.
Close(q) ==
  /\ q \in declared \ closing
  /\ Fault
  /\ closing' = closing \union {q}
  /\ UNCHANGED <<declared, routed, ready, dlq, delivery, service, sent, replay>>

\* Handlers that are still running are cancelled, and a cancelled one is
\* rejected like a failed one, even if its commit was on the way.
CancelHandler(s) ==
  /\ s[1] \in closing
  /\ pc[s] \in {"delivered", "handling", "writing"}
  /\ EndRetries(s, "rejecting")
  /\ \/ UNCHANGED service
     \/ pc[s] = "writing" /\ Effect(s)
  /\ UNCHANGED <<declared, routed, ready, dlq, closing, holds, owned, sent,
                 replay, faults>>

\* The process is started again.
Reopen(q) ==
  /\ q \in closing
  /\ \A s \in Slots : s[1] = q => pc[s] = "free"
  /\ closing' = closing \ {q}
  /\ UNCHANGED <<declared, routed, ready, dlq, delivery, service, sent, replay, faults>>

-----------------------------------------------------------------------------
(* replay_dead_letter_queue: get, publish to the primary exchange, ack *)

ReplayGet(q, e) ==
  /\ tool = NoLetter
  /\ dlq[q][e] > 0
  /\ replays < MaxReplays
  /\ replays' = replays + 1
  /\ dlq' = [dlq EXCEPT ![q][e] = @ - 1]
  /\ tool' = <<"got", q, e>>
  /\ UNCHANGED <<declared, routed, ready, closing, delivery, service, sent, replayTries,
                 dropped, faults>>

Publishing == tool # NoLetter /\ tool[1] = "got"

\* The exchange may have had the letter whether the tool hears of it or not.
Attempted == Route(tool[3]) \/ UNCHANGED <<ready, routed>>

\* A try is confirmed.  The copy goes to every queue bound to the event's name, not
\* only to the one that rejected it.
ReplayPublish ==
  /\ Publishing
  /\ Route(tool[3])
  /\ tool' = <<"sent", tool[2], tool[3]>>
  /\ replayTries' = 0
  /\ UNCHANGED <<declared, dlq, closing, delivery, service, sent, replays, dropped, faults>>

\* A try fails or times out, and with_retries has another.
ReplayTryFails ==
  /\ Publishing
  /\ replayTries + 1 < PublishTries
  /\ Attempted
  /\ replayTries' = replayTries + 1
  /\ UNCHANGED <<declared, dlq, closing, delivery, service, sent, tool, replays, dropped,
                 faults>>

ReplayAck ==
  /\ tool # NoLetter /\ tool[1] = "sent"
  /\ tool' = NoLetter
  /\ UNCHANGED <<declared, routed, ready, dlq, closing, delivery, service, sent, replayTries,
                 replays, dropped, faults>>

\* publish_event raises (the circuit or the bulkhead refuses, the last try fails) or
\* the decoding before it: process(requeue=False) rejects the letter from a queue
\* without a dead-letter exchange.
ReplayPublishFails ==
  /\ Publishing
  /\ \/ replayTries = 0 /\ UNCHANGED <<ready, routed>>
     \/ replayTries + 1 = PublishTries /\ Attempted
  /\ dropped' = [dropped EXCEPT ![tool[2]][tool[3]] = @ + 1]
  /\ tool' = NoLetter
  /\ replayTries' = 0
  /\ UNCHANGED <<declared, dlq, closing, delivery, service, sent, replays, faults>>

\* The tool dies before it answered, at whichever of its steps: the letter goes back
\* to its queue.
ReplayCrash ==
  /\ tool # NoLetter
  /\ Fault
  /\ dlq' = [dlq EXCEPT ![tool[2]][tool[3]] = @ + 1]
  /\ tool' = NoLetter
  /\ replayTries' = 0
  /\ UNCHANGED <<declared, routed, ready, closing, delivery, service, sent, replays, dropped>>

-----------------------------------------------------------------------------
Handle(s) ==
  \/ Admit(s) \/ Refuse(s)
  \/ InsertInbox(s) \/ SeeDuplicate(s) \/ Commit(s)
  \/ TryFails(s) \/ TimeoutAfterCommit(s) \/ CancelHandler(s)
  \/ Ack(s) \/ Reject(s)

Replay ==
  \/ \E q \in Queues, e \in Events : ReplayGet(q, e)
  \/ ReplayPublish \/ ReplayTryFails \/ ReplayAck \/ ReplayPublishFails \/ ReplayCrash

Next ==
  \/ \E e \in Events : Publish(e)
  \/ \E q \in Queues : Consume(q) \/ Crash(q) \/ LoseChannel(q) \/ Close(q) \/ Reopen(q)
  \/ \E s \in Slots : Deliver(s) \/ Handle(s)
  \/ Replay

Spec == Init /\ [][Next]_vars

\* Workers start, take what is ready and go on with what they have (every await
\* of a delivery has a time-out).  Nobody has to replay, to publish or to close.
Fairness ==
  /\ \A q \in Queues : WF_vars(Consume(q) \/ Reopen(q))
  /\ \A s \in Slots : WF_vars(Deliver(s) \/ Handle(s))

FairSpec == Spec /\ Fairness

-----------------------------------------------------------------------------
(* Properties *)

\* Redelivery, replay, concurrent deliveries, retries after a commit that timed
\* out: a handler takes effect once per event, exactly when the inbox has it.
EffectOnce ==
  \A q \in Queues, e \in Events : effects[q][e] = IF e \in inbox[q] THEN 1 ELSE 0

\* A copy of the event the broker or the tool still answers for.
Pending(q, e) ==
  \/ ready[q][e] > 0 \/ dlq[q][e] > 0
  \/ Unanswered(q, e) # {}
  \/ tool = <<"got", q, e>>

\* An event that reached a queue is handled, or a copy is waiting, in the dead
\* letters at worst; only the replay tool can make the broker discard one.
NoSilentLoss ==
  \A q \in Queues : \A e \in routed[q] :
    e \in inbox[q] \/ Pending(q, e) \/ dropped[q][e] > 0

\* Not so in the code: a dead letter survives until its event is handled, a
\* replay that fails included.
DeadLettersSurviveReplay ==
  \A q \in Queues : \A e \in routed[q] : e \in inbox[q] \/ Pending(q, e)

\* Copies of an event that a queue, its worker, its dead letters and the replay
\* tool account for together.
Copies(q, e) ==
  ready[q][e] + dlq[q][e] + Cardinality(Unanswered(q, e))
  + (IF tool = <<"got", q, e>> THEN 1 ELSE 0)

\* Publications of an event by its relay, and tries the replay tool may make for the
\* letters it took.
Published(e) == sent[e] + PublishTries * replays

\* Redelivery and dead-lettering never multiply a message, also when a channel is
\* lost under a handler that still answers for it: a queue accounts for at most one
\* copy per publication of the relay and one per try of the replay tool's calls.
CopiesConserved ==
  \A q \in Queues, e \in Events : Copies(q, e) <= Published(e)

\* A message that waits in a queue is handled or dead-lettered in the end,
\* whatever finitely many crashes and lost channels interrupt.
EventuallyAnswered ==
  \A q \in Queues, e \in Events :
    ready[q][e] > 0 ~> (e \in inbox[q] \/ dlq[q][e] > 0 \/ dropped[q][e] > 0)

\* What the other properties rest on.  A handler that is writing is the only one of
\* its event and the first; one that is done is in the inbox.
HandlersExclusive ==
  \A s \in Slots :
    /\ pc[s] = "writing" =>
         /\ holds[s] \notin inbox[s[1]]
         /\ ~Blocked(s)
    /\ pc[s] = "handled" => holds[s] \in inbox[s[1]]

\* A delivery that may yet fail has a try left.
TriesLeft == \A s \in Slots : tries[s] < HandlerTries[s[1]]

\* A copy of an event is in a queue, at its worker, among its dead letters or in the
\* tool's hands only if the queue is declared, bound to the event and was sent it.
CopiesRouted ==
  /\ \A q \in Queues, e \in Events :
       /\ ready[q][e] > 0 \/ dlq[q][e] > 0 => e \in routed[q]
       /\ e \in routed[q] => q \in Bindings[e] \intersect declared
  /\ \A s \in Slots : pc[s] # "free" => holds[s] \in routed[s[1]]
  /\ \A s \in owned : pc[s] # "free"
  /\ tool # NoLetter => tool[3] \in routed[tool[2]]

\* Copies the letter in the tool's hands may still add to a queue: one to every queue
\* by each try that is left, and one to its own dead letters if the tool dies.
MayAdd(q, e) ==
  IF tool = NoLetter THEN 0
  ELSE (IF tool[1] = "got" /\ tool[3] = e THEN PublishTries - replayTries ELSE 0)
     + (IF tool[2] = q /\ tool[3] = e THEN 1 ELSE 0)

CopiesAccounted ==
  \A q \in Queues, e \in Events :
    ready[q][e] + dlq[q][e] + Cardinality(Unanswered(q, e)) + MayAdd(q, e) <= Published(e)

\* The inductive invariant of the proofs.
IInv ==
  /\ TypeOK
  /\ EffectOnce
  /\ NoSilentLoss
  /\ HandlersExclusive
  /\ TriesLeft
  /\ CopiesRouted
  /\ CopiesAccounted

\* What the services may rely on: the queues with their workers, dead letters and
\* the replay tool implement an idempotent consumer.  An event waits while a copy
\* is ready or owned by a delivery; it is parked while a copy is among the dead
\* letters or in the hands of the replay tool.
Promise == INSTANCE IdempotentConsumer WITH
  reached <- routed,
  waiting <- [q \in Queues |->
    {e \in Events : ready[q][e] > 0 \/ Unanswered(q, e) # {}}],
  parked <- [q \in Queues |->
    {e \in Events : dlq[q][e] > 0 \/ tool \in {"got", "sent"} \X {q} \X {e}}],
  applied <- effects

ImplementsConsumer == Promise!Spec
=============================================================================
