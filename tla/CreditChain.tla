----------------------------- MODULE CreditChain -----------------------------
(***************************************************************************)
(* The credit services composed over their outboxes, the exchange and      *)
(* their consumers.  A command enters over HTTP: an intake at the          *)
(* application service, a summary request at the assistant, or a credit    *)
(* evaluation, for which the gateway posts to feature, scoring and         *)
(* decision.  Whatever a service does it appends to its history and        *)
(* announces with an event of its own, and the event sets the next service *)
(* to work - also when the gateway goes on to post to that service.        *)
(*                                                                         *)
(* The outbox tables behave as AtLeastOnceOutbox says, which OutboxRelay   *)
(* implements, and the queues as IdempotentConsumer says, which            *)
(* EventConsumer implements.  Contents of rows are left out: the trace id  *)
(* names the command they are about.                                       *)
(***************************************************************************)
EXTENDS Naturals, Sequences, FiniteSets

CONSTANTS
  EventIds,    \* uuid4 values for events; the row of an event carries its id
  Commands,    \* HTTP commands, by their trace ids
  Producers,   \* services with a history and an outbox
  Audit,       \* the queue of the audit service, which stores what it receives
  Upstream,    \* whose events a producer consumes; None for the first one
  Workers,     \* queues whose worker is deployed
  Pipelines,   \* what a command posts to, in order; twice if an answer is lost
  None,
  MaxCopies,   \* bound: copies of one event the broker accepts
  MaxRejects,  \* bound: copies that are dead-lettered
  MaxReplays   \* bound: tries of the replay tool to publish a dead letter

ChainQueues == {s \in Producers : Upstream[s] # None}
Queues == ChainQueues \union {Audit}

\* A row, and what it has in common with its event: the command it is about (trace_id)
\* and the event that caused it: causation_id in the event, source_event_id in the
\* row, except that a decision's row leaves it to its event.  A command's posts have
\* no cause inside the system: they pass on what the caller's header says, if anything.
Row == [id : EventIds, trace : Commands, cause : EventIds \union {None}]
Envelope == [producer : Producers, trace : Commands, cause : EventIds \union {None}]

ASSUME ChainAssumption ==
  /\ Audit \notin Producers
  /\ None \notin Producers \union EventIds \union Envelope
  /\ Upstream \in [Producers -> Producers \union {None}]
  /\ Workers \subseteq Queues
  /\ Pipelines \subseteq Seq(Producers)
  /\ MaxCopies \in Nat
  /\ MaxRejects \in Nat
  /\ MaxReplays \in Nat

\* The services are in an order: each consumes the events of an earlier one.
Orders ==
  {rank \in [Producers -> 0..Cardinality(Producers)] :
     \A s \in Producers : Upstream[s] # None => rank[Upstream[s]] < rank[s]}

ASSUME NoCircle == IsFiniteSet(Producers) /\ Orders # {}

VARIABLES
  posts,      \* the services each command has yet to post to
  history,    \* the append-only table of each service
  envelope,   \* what is stored in the outbox for each event id
  status, tried, copies,              \* the outboxes
  declared,                           \* queues that exist
  reached, waiting, parked, applied,  \* the consumers
  rejects,    \* copies dead-lettered so far
  replays     \* tries of the replay tool

outbox == <<status, tried, copies>>
consumer == <<reached, waiting, parked, applied>>
service == <<history, envelope>>
bounds == <<rejects, replays>>
vars == <<posts, service, outbox, declared, consumer, bounds>>

Outbox == INSTANCE AtLeastOnceOutbox WITH Events <- EventIds
Consumer == INSTANCE IdempotentConsumer WITH Events <- EventIds

TypeOK ==
  /\ posts \in [Commands -> Seq(Producers)]
  /\ history \in [Producers \union {Audit} -> SUBSET Row]
  /\ envelope \in [EventIds -> Envelope \union {None}]
  /\ Outbox!TypeOK
  /\ declared \subseteq Queues
  /\ Consumer!TypeOK
  /\ rejects \in 0..MaxRejects
  /\ replays \in 0..MaxReplays

Init ==
  /\ posts \in [Commands -> Pipelines]
  /\ history = [s \in Producers \union {Audit} |-> {}]
  /\ envelope = [e \in EventIds |-> None]
  /\ Outbox!Init
  /\ declared = {}
  /\ Consumer!Init
  /\ rejects = 0
  /\ replays = 0

-----------------------------------------------------------------------------
(* Services *)

Unused == {e \in EventIds : status[e] = "absent"}
NewId == CHOOSE e \in Unused : TRUE

\* One transaction of a service: a row of its history and the event for it.
RecordRowOnly(s, trace, cause) ==
  /\ Unused # {}
  /\ history' = [history EXCEPT ![s] = @ \union {[id |-> NewId, trace |-> trace, cause |-> cause]}]
  /\ UNCHANGED <<envelope, outbox>>
RecordUncaused(s, trace, cause) ==
  /\ Unused # {}
  /\ history' = [history EXCEPT ![s] = @ \union {[id |-> NewId, trace |-> trace, cause |-> cause]}]
  /\ envelope' = [envelope EXCEPT ![NewId] = [producer |-> s, trace |-> trace, cause |-> None]]
  /\ Outbox!Commit(NewId)
Record(s, trace, cause) ==
  /\ Unused # {}
  /\ history' = [history EXCEPT ![s] = @ \union {[id |-> NewId, trace |-> trace, cause |-> cause]}]
  /\ envelope' = [envelope EXCEPT ![NewId] = [producer |-> s, trace |-> trace, cause |-> cause]]
  /\ Outbox!Commit(NewId)

\* intake_application, materialize, score, evaluate, summarize: the service commits
\* and the command goes on to its next post: to the same service again when the
\* answer was lost and the gateway's client or the caller repeats it.
Post(c) ==
  /\ posts[c] # <<>>
  /\ Record(Head(posts[c]), c, None)
  /\ posts' = [posts EXCEPT ![c] = Tail(@)]
  /\ UNCHANGED <<declared, consumer, bounds>>

\* The tries of a post are used up.
PostGivenUp(c) ==
  /\ posts[c] # <<>>
  /\ posts' = [posts EXCEPT ![c] = <<>>]
  /\ UNCHANGED <<service, outbox, declared, consumer, bounds>>

\* handle_submitted_event, handle_feature_event, handle_score_event,
\* handle_decision_event: inbox row, history row and event commit together.
Handle(q, e) ==
  /\ q \in ChainQueues
  /\ Consumer!Apply(q, e)
  /\ Record(q, envelope[e].trace, e)
  /\ UNCHANGED <<posts, declared, bounds>>

\* AuditRepository.handle_event: the event itself is what is stored.
Store(e) ==
  /\ Consumer!Apply(Audit, e)
  /\ history' = [history EXCEPT ![Audit] = @ \union
       {[id |-> e, trace |-> envelope[e].trace, cause |-> envelope[e].cause]}]
  /\ UNCHANGED <<posts, envelope, outbox, declared, bounds>>

-----------------------------------------------------------------------------
(* Relays, exchange and queues *)

\* A worker declares its queue and binds it: to the event of the service before it,
\* the audit queue to credit.#.
Declare(q) ==
  /\ q \in Workers \ declared
  /\ declared' = declared \union {q}
  /\ UNCHANGED <<posts, service, outbox, consumer, bounds>>

BoundToAll(e) == Queues
Bound(e) == {Audit} \union {s \in ChainQueues : Upstream[s] = envelope[e].producer}

RelayTries(e) ==
  /\ e \notin tried
  /\ Outbox!Try(e)
  /\ UNCHANGED <<posts, service, declared, consumer, bounds>>

\* The exchange drops what no queue is declared for.
Accepted(e) ==
  /\ copies[e] < MaxCopies
  /\ Outbox!Accept(e)
  /\ Consumer!Reach(e, Bound(e) \intersect declared)
  /\ UNCHANGED <<posts, service, declared, bounds>>

RelaySettles(e) ==
  /\ Outbox!Publish(e) \/ Outbox!GiveUp(e)
  /\ UNCHANGED <<posts, service, declared, consumer, bounds>>

Acknowledge(q, e) ==
  /\ Consumer!Finish(q, e)
  /\ UNCHANGED <<posts, service, outbox, declared, bounds>>

DeadLetter(q, e) ==
  /\ rejects < MaxRejects
  /\ rejects' = rejects + 1
  /\ Consumer!Park(q, e)
  /\ UNCHANGED <<posts, service, outbox, declared, replays>>

\* The replay tool publishes to all bound queues.  A letter stays with it for another
\* try when the one before was not confirmed, and another letter of the event among the
\* dead ones; with the last it is answered for, or, when the tries fail, discarded.
Replay(q, e) ==
  /\ e \in parked[q]
  /\ replays < MaxReplays
  /\ replays' = replays + 1
  /\ \/ Consumer!Reach(e, Bound(e) \intersect declared)
     \/ \E to \in {{}, Bound(e) \intersect declared} : Consumer!Release(q, e, to)
  /\ UNCHANGED <<posts, service, outbox, declared, rejects>>

-----------------------------------------------------------------------------
Relay(e) == RelayTries(e) \/ Accepted(e) \/ RelaySettles(e)

Answer(q, e) ==
  \/ Handle(q, e)
  \/ q = Audit /\ Store(e)
  \/ Acknowledge(q, e)
  \/ DeadLetter(q, e)

Next ==
  \/ \E c \in Commands : Post(c) \/ PostGivenUp(c)
  \/ \E q \in Queues : Declare(q)
  \/ \E e \in EventIds : Relay(e)
  \/ \E q \in Queues, e \in EventIds : Answer(q, e) \/ Replay(q, e)

Spec == Init /\ [][Next]_vars

\* Relays settle what is in their tables (NothingForgotten of OutboxRelay) and
\* workers answer for what waits (EventuallyAnswered of EventConsumer).
Fairness ==
  /\ \A e \in EventIds : WF_vars(RelayTries(e)) /\ WF_vars(RelaySettles(e))
  /\ \A q \in Queues, e \in EventIds : WF_vars(e \in waiting[q] /\ Answer(q, e))

FairSpec == Spec /\ Fairness

-----------------------------------------------------------------------------
(* Properties *)

\* A row never exists without its event, nor an event without its row, and both
\* name the same command and cause: what a service did is what it announces.
HistoryMatchesOutbox ==
  /\ \A s \in Producers : \A r \in history[s] :
       envelope[r.id] = [producer |-> s, trace |-> r.trace, cause |-> r.cause]
  /\ \A e \in EventIds : status[e] # "absent" =>
       /\ envelope[e] # None
       /\ [id |-> e, trace |-> envelope[e].trace, cause |-> envelope[e].cause]
            \in history[envelope[e].producer]

\* The causes can be followed back, through the histories of all services, to the
\* post a command made, and never leave that command; what the audit service
\* stored is a row of some service.
CausesLinked ==
  /\ \A s \in Producers : \A r \in history[s] : r.cause # None =>
       /\ Upstream[s] # None
       /\ \E p \in history[Upstream[s]] : p.id = r.cause /\ p.trace = r.trace
  /\ \A r \in history[Audit] : \E s \in Producers : r \in history[s]

\* Whatever is published, delivered or replayed twice, a service draws one
\* conclusion from one event.
OneOutcomePerCause ==
  \A s \in Producers : \A r1, r2 \in history[s] :
    r1.cause = r2.cause /\ r1.cause # None => r1 = r2

\* Where events come from, and what consumers know of them.
EventsRouted ==
  /\ \A e \in EventIds : (e \in tried \/ copies[e] > 0 \/ envelope[e] # None) => status[e] # "absent"
  /\ \A q \in Queues : waiting[q] \union parked[q] \subseteq reached[q]
  /\ \A q \in Queues : \A e \in reached[q] : status[e] # "absent" /\ q \in Bound(e)
  /\ \A s \in Producers : \A r \in history[s] : r.cause # None =>
       /\ s \in ChainQueues
       /\ r.cause \in reached[s]
       /\ applied[s][r.cause] > 0
       /\ envelope[r.cause].trace = r.trace

\* The invariant that is inductive.
IInv ==
  /\ TypeOK
  /\ HistoryMatchesOutbox
  /\ CausesLinked
  /\ OneOutcomePerCause
  /\ EventsRouted

\* Services whose events no other service consumes.
Ends == {s \in Producers : \A t \in Producers : Upstream[t] # s}

About(s, c) == {r \in history[s] : r.trace = c}

\* The posts a command made that were committed, by their events.
Posted(c) ==
  {e \in EventIds : envelope[e] # None /\ envelope[e].trace = c /\ envelope[e].cause = None}

\* A history holds at most one row about a command for each post the command made:
\* however often events are published, delivered or replayed, and along however
\* many services, posts are all that multiplies conclusions.
OneRowPerPost ==
  \A c \in Commands, s \in Producers : Cardinality(About(s, c)) <= Cardinality(Posted(c))

Committed(c) == \E s \in Producers : About(s, c) # {}

\* An event of the command was given up by its relay, was dropped by the exchange
\* before the queue existed, or is among the dead letters or lost in a replay.
Interrupted(c) ==
  \E e \in EventIds :
    /\ envelope[e] # None /\ envelope[e].trace = c
    /\ \/ status[e] = "dead"
       \/ /\ status[e] = "published"
          /\ \E s \in ChainQueues :
               /\ Upstream[s] = envelope[e].producer
               /\ e \notin waiting[s] /\ applied[s][e] = 0

\* Once any service committed anything about a command, the command comes to the
\* end of the chain, unless the events of it show where it was interrupted.
ChainCompletes ==
  \A c \in Commands :
    Committed(c) ~> (\E s \in Ends : About(s, c) # {}) \/ Interrupted(c)

\* Not so in the code: after its evaluation an application has one row in each of
\* the histories of the services the gateway posted to.
SingleHistory ==
  \A c \in Commands, s \in Producers : Cardinality(About(s, c)) <= 1

=============================================================================
