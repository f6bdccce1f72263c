-------------------------- MODULE CreditChainProofs --------------------------
(***************************************************************************)
(* Proofs about CreditChain for any services, commands, events and         *)
(* pipelines, any number of copies, dead letters and replays.              *)
(*                                                                         *)
(* First the histories, outboxes and queues agree (IInv).  Then rows are   *)
(* followed back along their causes, service by service, to posts, which   *)
(* bounds them.  Last, an event that ends a chain early can be found.      *)
(***************************************************************************)
EXTENDS CreditChain, FiniteSetTheorems, TLAPS

-----------------------------------------------------------------------------
(* The facts that make up the invariant *)

LEMMA IInvParts ==
  IInv <=> TypeOK /\ HistoryMatchesOutbox /\ CausesLinked /\ OneOutcomePerCause /\ EventsRouted
BY DEF IInv

\* The id of a new event is one that no table knows.
LEMMA NewIdUnknown ==
  ASSUME IInv, Unused # {}
  PROVE  /\ NewId \in EventIds
         /\ status[NewId] = "absent"
         /\ envelope[NewId] = None
         /\ NewId \notin tried
         /\ \A s \in Producers : \A r \in history[s] : r.id # NewId /\ r.cause # NewId
         /\ \A q \in Queues : NewId \notin reached[q]
<1>1. NewId \in Unused
  BY DEF NewId
<1>2. NewId \in EventIds /\ status[NewId] = "absent"
  BY <1>1 DEF Unused
<1>3. envelope[NewId] = None /\ NewId \notin tried
  BY <1>2, IInvParts DEF EventsRouted
<1>4. \A q \in Queues : NewId \notin reached[q]
  BY <1>2, IInvParts DEF EventsRouted
<1>5. ASSUME NEW s \in Producers, NEW r \in history[s]
      PROVE  r.id # NewId /\ r.cause # NewId
  <2>1. r \in Row
    BY IInvParts DEF TypeOK
  <2>2. envelope[r.id] = [producer |-> s, trace |-> r.trace, cause |-> r.cause]
    BY IInvParts DEF HistoryMatchesOutbox
  <2>3. envelope[r.id] \in Envelope
    BY <2>1, <2>2 DEF Row, Envelope
  <2>4. r.id # NewId
    BY <2>3, <1>3, ChainAssumption
  <2>5. r.cause # NewId
    <3>1. CASE r.cause = None
      BY <3>1, <1>2, ChainAssumption
    <3>2. CASE r.cause # None
      BY <3>2, <1>4, IInvParts DEF EventsRouted, Queues
    <3>3. QED
      BY <3>1, <3>2
  <2>6. QED
    BY <2>4, <2>5
<1>6. QED
  BY <1>2, <1>3, <1>4, <1>5

-----------------------------------------------------------------------------
(* A service's transaction *)

\* What the tables hold after a service recorded a row and its event.
LEMMA RecordedTables ==
  ASSUME IInv, NEW s \in Producers, NEW trace \in Commands, NEW cause \in EventIds \union {None},
         Record(s, trace, cause)
  PROVE  /\ NewId \in EventIds
         /\ \A t \in Producers \union {Audit} : history[t] \subseteq history'[t]
         /\ \A t \in (Producers \union {Audit}) \ {s} : history'[t] = history[t]
         /\ history'[s] = history[s] \union {[id |-> NewId, trace |-> trace, cause |-> cause]}
         /\ \A e \in EventIds \ {NewId} : envelope'[e] = envelope[e] /\ status'[e] = status[e]
         /\ envelope'[NewId] = [producer |-> s, trace |-> trace, cause |-> cause]
         /\ status'[NewId] = "pending"
         /\ tried' = tried /\ copies' = copies
         /\ history' \in [Producers \union {Audit} -> SUBSET Row]
         /\ envelope' \in [EventIds -> Envelope \union {None}]
         /\ Outbox!TypeOK'
<1>1. NewId \in EventIds
  BY NewIdUnknown DEF Record
<1>2. history \in [Producers \union {Audit} -> SUBSET Row] /\ Outbox!TypeOK
      /\ envelope \in [EventIds -> Envelope \union {None}]
  BY IInvParts DEF TypeOK
<1>3. /\ history' = [history EXCEPT ![s] = history[s] \union {[id |-> NewId, trace |-> trace, cause |-> cause]}]
      /\ envelope' = [envelope EXCEPT ![NewId] = [producer |-> s, trace |-> trace, cause |-> cause]]
      /\ status' = [status EXCEPT ![NewId] = "pending"]
      /\ tried' = tried /\ copies' = copies
  BY DEF Record, Outbox!Commit
<1>4. [id |-> NewId, trace |-> trace, cause |-> cause] \in Row
  BY <1>1 DEF Row
<1>5. [producer |-> s, trace |-> trace, cause |-> cause] \in Envelope
  BY DEF Envelope
<1>6. Outbox!TypeOK'
  BY <1>1, <1>2, <1>3 DEF Outbox!TypeOK
<1>7. history' \in [Producers \union {Audit} -> SUBSET Row]
  BY <1>2, <1>3, <1>4
<1>8. envelope' \in [EventIds -> Envelope \union {None}]
  BY <1>1, <1>2, <1>3, <1>5
<1>9. /\ \A e \in EventIds \ {NewId} : envelope'[e] = envelope[e] /\ status'[e] = status[e]
      /\ envelope'[NewId] = [producer |-> s, trace |-> trace, cause |-> cause]
      /\ status'[NewId] = "pending"
  BY <1>1, <1>2, <1>3 DEF Outbox!TypeOK
<1>10. /\ \A t \in Producers \union {Audit} : history[t] \subseteq history'[t]
       /\ \A t \in (Producers \union {Audit}) \ {s} : history'[t] = history[t]
       /\ history'[s] = history[s] \union {[id |-> NewId, trace |-> trace, cause |-> cause]}
  BY <1>2, <1>3
<1>11. QED
  BY <1>1, <1>3, <1>6, <1>7, <1>8, <1>9, <1>10

\* A transaction whose cause, if it has one, reached the service, is new to it and
\* is about the same command, keeps all four parts of the invariant.
LEMMA RecordStep ==
  ASSUME IInv, NEW s \in Producers, NEW trace \in Commands, NEW cause \in EventIds \union {None},
         Record(s, trace, cause),
         reached' = reached, waiting' = waiting, parked' = parked,
         \A q \in Queues, e \in EventIds : applied[q][e] > 0 => applied'[q][e] > 0,
         cause # None =>
           /\ s \in ChainQueues
           /\ cause \in reached[s]
           /\ applied[s][cause] = 0
           /\ applied'[s][cause] > 0
           /\ envelope[cause].trace = trace
  PROVE  HistoryMatchesOutbox' /\ CausesLinked' /\ OneOutcomePerCause' /\ EventsRouted'
<1> DEFINE row == [id |-> NewId, trace |-> trace, cause |-> cause]
<1>1. /\ \A t \in Producers \union {Audit} : history[t] \subseteq history'[t]
      /\ \A t \in (Producers \union {Audit}) \ {s} : history'[t] = history[t]
      /\ history'[s] = history[s] \union {row}
      /\ \A e \in EventIds \ {NewId} : envelope'[e] = envelope[e] /\ status'[e] = status[e]
      /\ envelope'[NewId] = [producer |-> s, trace |-> trace, cause |-> cause]
      /\ status'[NewId] = "pending"
      /\ tried' = tried /\ copies' = copies
  BY RecordedTables
<1>2. /\ NewId \in EventIds
      /\ \A t \in Producers : \A r \in history[t] : r.id # NewId /\ r.cause # NewId
      /\ \A q \in Queues : NewId \notin reached[q]
      /\ status[NewId] = "absent"
  BY NewIdUnknown DEF Record
<1>3. \A t \in Producers : history[t] \subseteq Row
  BY IInvParts DEF TypeOK
<1>4. row.id = NewId /\ row.trace = trace /\ row.cause = cause
  OBVIOUS
<1>5. cause # None => cause # NewId
  BY <1>2 DEF Queues
<1>6. HistoryMatchesOutbox'
  <2>1. ASSUME NEW t \in Producers, NEW r \in history'[t]
        PROVE  envelope'[r.id] = [producer |-> t, trace |-> r.trace, cause |-> r.cause]
    <3>1. CASE r \in history[t]
      <4>1. r.id \in EventIds \ {NewId}
        BY <3>1, <1>2, <1>3 DEF Row
      <4>2. QED
        BY <4>1, <3>1, <1>1, IInvParts DEF HistoryMatchesOutbox
    <3>2. CASE r \notin history[t]
      <4>1. t = s /\ r = row
        BY <3>2, <1>1
      <4>2. QED
        BY <4>1, <1>1, <1>4
    <3>3. QED
      BY <3>1, <3>2
  <2>2. ASSUME NEW e \in EventIds, status'[e] # "absent"
        PROVE  /\ envelope'[e] # None
               /\ [id |-> e, trace |-> envelope'[e].trace, cause |-> envelope'[e].cause]
                    \in history'[envelope'[e].producer]
    <3>1. CASE e = NewId
      <4>1. envelope'[e] \in Envelope
        BY <3>1, <1>1 DEF Envelope
      <4>2. QED
        BY <4>1, <3>1, <1>1, ChainAssumption
    <3>2. CASE e # NewId
      <4>1. envelope'[e] = envelope[e] /\ status[e] # "absent"
        BY <3>2, <2>2, <1>1
      <4>2. /\ envelope[e] # None
            /\ [id |-> e, trace |-> envelope[e].trace, cause |-> envelope[e].cause]
                 \in history[envelope[e].producer]
        BY <4>1, IInvParts DEF HistoryMatchesOutbox
      <4>3. envelope[e].producer \in Producers
        BY <4>2, IInvParts DEF TypeOK, Envelope
      <4>4. QED
        BY <4>1, <4>2, <4>3, <1>1
    <3>3. QED
      BY <3>1, <3>2
  <2>3. QED
    BY <2>1, <2>2 DEF HistoryMatchesOutbox
<1>7. CausesLinked'
  <2>1. ASSUME NEW t \in Producers, NEW r \in history'[t], r.cause # None
        PROVE  /\ Upstream[t] # None
               /\ \E p \in history'[Upstream[t]] : p.id = r.cause /\ p.trace = r.trace
    <3>1. CASE r \in history[t]
      <4>1. /\ Upstream[t] # None
            /\ \E p \in history[Upstream[t]] : p.id = r.cause /\ p.trace = r.trace
        BY <3>1, <2>1, IInvParts DEF CausesLinked
      <4>2. Upstream[t] \in Producers
        BY <4>1, ChainAssumption
      <4>3. QED
        BY <4>1, <4>2, <1>1
    <3>2. CASE r \notin history[t]
      <4>1. t = s /\ r = row
        BY <3>2, <1>1
      <4>2. s \in ChainQueues /\ cause \in reached[s] /\ envelope[cause].trace = trace
        BY <4>1, <2>1, <1>4
      <4>3. status[cause] # "absent" /\ s \in Bound(cause)
        BY <4>2, IInvParts DEF EventsRouted, Queues
      <4>4. Upstream[s] = envelope[cause].producer /\ Upstream[s] \in Producers
        BY <4>2, <4>3, ChainAssumption DEF Bound, ChainQueues
      <4>5. cause \in EventIds
        BY <4>1, <2>1, <1>4
      <4>6. [id |-> cause, trace |-> envelope[cause].trace, cause |-> envelope[cause].cause]
              \in history[Upstream[s]]
        BY <4>3, <4>4, <4>5, IInvParts DEF HistoryMatchesOutbox
      <4>7. QED
        BY <4>1, <4>2, <4>4, <4>6, <1>1, <1>4 DEF ChainQueues
    <3>3. QED
      BY <3>1, <3>2
  <2>2. ASSUME NEW r \in history'[Audit]
        PROVE  \E t \in Producers : r \in history'[t]
    <3>1. r \in history[Audit]
      BY <1>1, ChainAssumption
    <3>2. QED
      BY <3>1, <1>1, IInvParts DEF CausesLinked
  <2>3. QED
    BY <2>1, <2>2 DEF CausesLinked
<1>8. OneOutcomePerCause'
  <2>1. \A r \in history[s] : cause # None => r.cause # cause
    BY IInvParts DEF EventsRouted
  <2>2. SUFFICES ASSUME NEW t \in Producers, NEW r1 \in history'[t], NEW r2 \in history'[t],
                        r1.cause = r2.cause, r1.cause # None
                 PROVE  r1 = r2
    BY DEF OneOutcomePerCause
  <2>3. CASE r1 \in history[t] /\ r2 \in history[t]
    BY <2>2, <2>3, IInvParts DEF OneOutcomePerCause
  <2>4. CASE ~(r1 \in history[t] /\ r2 \in history[t])
    BY <2>1, <2>2, <2>4, <1>1, <1>4
  <2>5. QED
    BY <2>3, <2>4
<1>9. EventsRouted'
  <2>1. \A e \in EventIds : (e \in tried' \/ copies'[e] > 0 \/ envelope'[e] # None) => status'[e] # "absent"
    BY <1>1, <1>2, IInvParts DEF EventsRouted
  <2>2. \A q \in Queues : waiting'[q] \union parked'[q] \subseteq reached'[q]
    BY IInvParts DEF EventsRouted
  <2>3. ASSUME NEW q \in Queues, NEW e \in reached'[q]
        PROVE  status'[e] # "absent" /\ q \in Bound(e)'
    <3>1. e \in EventIds \ {NewId} /\ e \in reached[q]
      BY <2>3, <1>2, IInvParts DEF TypeOK, Consumer!TypeOK
    <3>2. QED
      BY <3>1, <1>1, IInvParts DEF EventsRouted, Bound
  <2>4. ASSUME NEW t \in Producers, NEW r \in history'[t], r.cause # None
        PROVE  /\ t \in ChainQueues
               /\ r.cause \in reached'[t]
               /\ applied'[t][r.cause] > 0
               /\ envelope'[r.cause].trace = r.trace
    <3>1. CASE r \in history[t]
      <4>1. /\ t \in ChainQueues
            /\ r.cause \in reached[t]
            /\ applied[t][r.cause] > 0
            /\ envelope[r.cause].trace = r.trace
        BY <3>1, <2>4, IInvParts DEF EventsRouted
      <4>2. r.cause \in EventIds \ {NewId}
        BY <3>1, <2>4, <1>2, <1>3 DEF Row
      <4>3. QED
        BY <4>1, <4>2, <1>1 DEF Queues
    <3>2. CASE r \notin history[t]
      <4>1. t = s /\ r = row
        BY <3>2, <1>1
      <4>2. cause # None /\ cause \in EventIds \ {NewId}
        BY <4>1, <2>4, <1>4, <1>5
      <4>3. QED
        BY <4>1, <4>2, <1>1, <1>4
    <3>3. QED
      BY <3>1, <3>2
  <2>5. QED
    BY <2>1, <2>2, <2>3, <2>4 DEF EventsRouted
<1>10. QED
  BY <1>6, <1>7, <1>8, <1>9

-----------------------------------------------------------------------------
(* Each step preserves the inductive invariant *)

LEMMA PostStep ==
  ASSUME IInv, NEW c \in Commands, Post(c)
  PROVE  IInv'
<1> DEFINE s == Head(posts[c])
<1>1. posts[c] \in Seq(Producers) /\ posts[c] # <<>>
  BY IInvParts DEF TypeOK, Post
<1>2. s \in Producers /\ Tail(posts[c]) \in Seq(Producers)
  BY <1>1
<1>3. Record(s, c, None) /\ UNCHANGED <<declared, consumer, bounds>>
  BY DEF Post
<1>4. UNCHANGED <<reached, waiting, parked, applied, rejects, replays, declared>>
  BY <1>3 DEF consumer, bounds
<1>5. HistoryMatchesOutbox' /\ CausesLinked' /\ OneOutcomePerCause' /\ EventsRouted'
  BY <1>2, <1>3, <1>4, RecordStep
<1>6. /\ history' \in [Producers \union {Audit} -> SUBSET Row]
      /\ envelope' \in [EventIds -> Envelope \union {None}]
      /\ Outbox!TypeOK'
  BY <1>2, <1>3, RecordedTables
<1>7. Consumer!TypeOK'
  BY <1>4, IInvParts DEF TypeOK, Consumer!TypeOK
<1>8. posts' \in [Commands -> Seq(Producers)]
  BY <1>2, IInvParts DEF TypeOK, Post
<1>9. TypeOK'
  BY <1>4, <1>6, <1>7, <1>8, IInvParts DEF TypeOK
<1>10. QED
  BY <1>5, <1>9 DEF IInv

LEMMA PostGivenUpStep ==
  ASSUME IInv, NEW c \in Commands, PostGivenUp(c)
  PROVE  IInv'
<1> USE DEF PostGivenUp, service, outbox, consumer, bounds
<1>1. posts' \in [Commands -> Seq(Producers)]
  BY IInvParts DEF TypeOK
<1>2. TypeOK'
  BY <1>1, IInvParts DEF TypeOK, Outbox!TypeOK, Consumer!TypeOK
<1>3. HistoryMatchesOutbox' /\ CausesLinked' /\ OneOutcomePerCause'
  BY IInvParts DEF HistoryMatchesOutbox, CausesLinked, OneOutcomePerCause
<1>4. EventsRouted'
  BY IInvParts DEF EventsRouted, Bound
<1>5. QED
  BY <1>2, <1>3, <1>4 DEF IInv

\* What taking effect for an event does to the counts.
LEMMA ApplyStep ==
  ASSUME IInv, NEW q \in Queues, NEW e \in EventIds, Consumer!Apply(q, e)
  PROVE  /\ UNCHANGED <<reached, waiting, parked>>
         /\ e \in reached[q]
         /\ applied[q][e] = 0 /\ applied'[q][e] > 0
         /\ \A p \in Queues, f \in EventIds : applied[p][f] > 0 => applied'[p][f] > 0
         /\ Consumer!TypeOK'
<1>1. applied \in [Queues -> [EventIds -> Nat]]
  BY IInvParts DEF TypeOK, Consumer!TypeOK
<1>2. applied' = [applied EXCEPT ![q] = [applied[q] EXCEPT ![e] = applied[q][e] + 1]]
  BY DEF Consumer!Apply
<1>3. applied'[q] = [applied[q] EXCEPT ![e] = applied[q][e] + 1]
  BY <1>1, <1>2
<1>4. applied'[q][e] = applied[q][e] + 1 /\ applied[q][e] \in Nat
  BY <1>1, <1>3
<1>5. ASSUME NEW p \in Queues, NEW f \in EventIds, applied[p][f] > 0
      PROVE  applied'[p][f] > 0
  BY <1>1, <1>2, <1>3, <1>4, <1>5
<1>6. applied' \in [Queues -> [EventIds -> Nat]]
  <2>1. applied'[q] \in [EventIds -> Nat]
    BY <1>1, <1>3, <1>4
  <2>2. QED
    BY <1>1, <1>2, <2>1
<1>7. QED
  BY <1>4, <1>5, <1>6, IInvParts DEF Consumer!Apply, TypeOK, Consumer!TypeOK

LEMMA HandleStep ==
  ASSUME IInv, NEW q \in Queues, NEW e \in EventIds, Handle(q, e)
  PROVE  IInv'
<1>1. /\ q \in ChainQueues
      /\ Consumer!Apply(q, e)
      /\ Record(q, envelope[e].trace, e)
      /\ UNCHANGED <<posts, declared, rejects, replays>>
  BY DEF Handle, bounds
<1>2. /\ UNCHANGED <<reached, waiting, parked>>
      /\ e \in reached[q]
      /\ applied[q][e] = 0 /\ applied'[q][e] > 0
      /\ \A p \in Queues, f \in EventIds : applied[p][f] > 0 => applied'[p][f] > 0
      /\ Consumer!TypeOK'
  BY <1>1, ApplyStep
<1>3. q \in Producers
  BY <1>1 DEF ChainQueues
<1>4. status[e] # "absent"
  BY <1>2, IInvParts DEF EventsRouted
<1>5. envelope[e].trace \in Commands
  BY <1>4, IInvParts DEF HistoryMatchesOutbox, TypeOK, Envelope
<1>6. HistoryMatchesOutbox' /\ CausesLinked' /\ OneOutcomePerCause' /\ EventsRouted'
  BY <1>1, <1>2, <1>3, <1>5, RecordStep
<1>7. /\ history' \in [Producers \union {Audit} -> SUBSET Row]
      /\ envelope' \in [EventIds -> Envelope \union {None}]
      /\ Outbox!TypeOK'
  BY <1>1, <1>3, <1>5, RecordedTables
<1>8. TypeOK'
  BY <1>1, <1>2, <1>7, IInvParts DEF TypeOK
<1>9. QED
  BY <1>6, <1>8 DEF IInv

LEMMA StoreStep ==
  ASSUME IInv, NEW e \in EventIds, Store(e)
  PROVE  IInv'
<1> DEFINE row == [id |-> e, trace |-> envelope[e].trace, cause |-> envelope[e].cause]
<1>1. /\ Consumer!Apply(Audit, e)
      /\ history' = [history EXCEPT ![Audit] = history[Audit] \union {row}]
      /\ UNCHANGED <<posts, envelope, status, tried, copies, declared, rejects, replays>>
  BY DEF Store, outbox, bounds
<1>2. Audit \in Queues
  BY DEF Queues
<1>3. /\ UNCHANGED <<reached, waiting, parked>>
      /\ e \in reached[Audit]
      /\ \A p \in Queues, f \in EventIds : applied[p][f] > 0 => applied'[p][f] > 0
      /\ Consumer!TypeOK'
  BY <1>1, <1>2, ApplyStep
<1>4. status[e] # "absent"
  BY <1>2, <1>3, IInvParts DEF EventsRouted
<1>5. /\ envelope[e] \in Envelope
      /\ row \in history[envelope[e].producer]
  BY <1>4, IInvParts DEF HistoryMatchesOutbox, TypeOK
<1>6. envelope[e].producer \in Producers /\ row \in Row
  BY <1>5 DEF Envelope, Row
<1>7. history \in [Producers \union {Audit} -> SUBSET Row]
  BY IInvParts DEF TypeOK
<1>8. /\ \A t \in Producers : history'[t] = history[t]
      /\ history'[Audit] = history[Audit] \union {row}
      /\ history' \in [Producers \union {Audit} -> SUBSET Row]
  BY <1>1, <1>6, <1>7, ChainAssumption
<1>9. TypeOK'
  BY <1>1, <1>3, <1>8, IInvParts DEF TypeOK, Outbox!TypeOK
<1>10. HistoryMatchesOutbox'
  <2>1. ASSUME NEW t \in Producers, NEW r \in history'[t]
        PROVE  envelope'[r.id] = [producer |-> t, trace |-> r.trace, cause |-> r.cause]
    BY <1>1, <1>8, IInvParts DEF HistoryMatchesOutbox
  <2>2. ASSUME NEW f \in EventIds, status'[f] # "absent"
        PROVE  /\ envelope'[f] # None
               /\ [id |-> f, trace |-> envelope'[f].trace, cause |-> envelope'[f].cause]
                    \in history'[envelope'[f].producer]
    <3>1. /\ envelope[f] # None
          /\ [id |-> f, trace |-> envelope[f].trace, cause |-> envelope[f].cause]
               \in history[envelope[f].producer]
      BY <1>1, <2>2, IInvParts DEF HistoryMatchesOutbox
    <3>2. envelope[f].producer \in Producers
      BY <3>1, IInvParts DEF TypeOK, Envelope
    <3>3. QED
      BY <3>1, <3>2, <1>1, <1>8
  <2>3. QED
    BY <2>1, <2>2 DEF HistoryMatchesOutbox
<1>11. CausesLinked'
  <2>1. ASSUME NEW t \in Producers, NEW r \in history'[t], r.cause # None
        PROVE  /\ Upstream[t] # None
               /\ \E p \in history'[Upstream[t]] : p.id = r.cause /\ p.trace = r.trace
    <3>1. /\ Upstream[t] # None
          /\ \E p \in history[Upstream[t]] : p.id = r.cause /\ p.trace = r.trace
      BY <2>1, <1>8, IInvParts DEF CausesLinked
    <3>2. QED
      BY <3>1, <1>8, ChainAssumption
  <2>2. \A r \in history'[Audit] : \E t \in Producers : r \in history'[t]
    BY <1>5, <1>6, <1>8, IInvParts DEF CausesLinked
  <2>3. QED
    BY <2>1, <2>2 DEF CausesLinked
<1>12. OneOutcomePerCause'
  BY <1>8, IInvParts DEF OneOutcomePerCause
<1>13. EventsRouted'
  <2>1. \A f \in EventIds : (f \in tried' \/ copies'[f] > 0 \/ envelope'[f] # None) => status'[f] # "absent"
    BY <1>1, IInvParts DEF EventsRouted
  <2>2. \A q \in Queues : waiting'[q] \union parked'[q] \subseteq reached'[q]
    BY <1>3, IInvParts DEF EventsRouted
  <2>3. \A q \in Queues : \A f \in reached'[q] : status'[f] # "absent" /\ q \in Bound(f)'
    BY <1>1, <1>3, IInvParts DEF EventsRouted, Bound
  <2>4. ASSUME NEW t \in Producers, NEW r \in history'[t], r.cause # None
        PROVE  /\ t \in ChainQueues
               /\ r.cause \in reached'[t]
               /\ applied'[t][r.cause] > 0
               /\ envelope'[r.cause].trace = r.trace
    <3>1. /\ t \in ChainQueues
          /\ r.cause \in reached[t]
          /\ applied[t][r.cause] > 0
          /\ envelope[r.cause].trace = r.trace
      BY <2>4, <1>8, IInvParts DEF EventsRouted
    <3>2. r.cause \in EventIds
      BY <2>4, <1>7, <1>8 DEF Row
    <3>3. QED
      BY <3>1, <3>2, <1>1, <1>3 DEF Queues
  <2>5. QED
    BY <2>1, <2>2, <2>3, <2>4 DEF EventsRouted
<1>14. QED
  BY <1>9, <1>10, <1>11, <1>12, <1>13 DEF IInv

LEMMA DeclareStep ==
  ASSUME IInv, NEW q \in Queues, Declare(q)
  PROVE  IInv'
<1> USE DEF Declare, service, outbox, consumer, bounds
<1>1. declared' \subseteq Queues
  BY IInvParts DEF TypeOK
<1>2. TypeOK'
  BY <1>1, IInvParts DEF TypeOK, Outbox!TypeOK, Consumer!TypeOK
<1>3. HistoryMatchesOutbox' /\ CausesLinked' /\ OneOutcomePerCause'
  BY IInvParts DEF HistoryMatchesOutbox, CausesLinked, OneOutcomePerCause
<1>4. EventsRouted'
  BY IInvParts DEF EventsRouted, Bound
<1>5. QED
  BY <1>2, <1>3, <1>4 DEF IInv

\* A step of relay, exchange or queue that leaves the histories alone, tries and
\* accepts only what is stored, and keeps to the bindings.
LEMMA TransportStep ==
  ASSUME IInv, UNCHANGED <<posts, history, envelope, declared, applied>>,
         Outbox!TypeOK', Consumer!TypeOK', rejects' \in 0..MaxRejects, replays' \in 0..MaxReplays,
         \A e \in EventIds : status'[e] = "absent" <=> status[e] = "absent",
         \A e \in EventIds : (e \in tried' \/ copies'[e] > 0) => status[e] # "absent",
         \A q \in Queues : waiting'[q] \union parked'[q] \subseteq reached'[q],
         \A q \in Queues : reached[q] \subseteq reached'[q],
         \A q \in Queues : \A e \in reached'[q] \ reached[q] :
           status[e] # "absent" /\ q \in Bound(e)
  PROVE  IInv'
<1>1. TypeOK'
  BY IInvParts DEF TypeOK
<1>2. HistoryMatchesOutbox' /\ CausesLinked' /\ OneOutcomePerCause'
  BY IInvParts DEF HistoryMatchesOutbox, CausesLinked, OneOutcomePerCause
<1>3. \A q \in Queues : reached'[q] \subseteq EventIds
  BY DEF Consumer!TypeOK
<1>4. \A e \in EventIds : envelope'[e] # None => status'[e] # "absent"
  BY IInvParts DEF EventsRouted
<1>5. \A q \in Queues : \A e \in reached'[q] : status'[e] # "absent" /\ q \in Bound(e)'
  BY <1>3, IInvParts DEF EventsRouted, Bound
<1>6. \A s \in Producers : \A r \in history'[s] : r.cause # None =>
        /\ s \in ChainQueues
        /\ r.cause \in reached'[s]
        /\ applied'[s][r.cause] > 0
        /\ envelope'[r.cause].trace = r.trace
  BY IInvParts DEF EventsRouted, Queues
<1>7. EventsRouted'
  BY <1>4, <1>5, <1>6 DEF EventsRouted
<1>8. QED
  BY <1>1, <1>2, <1>7 DEF IInv

LEMMA RelayTriesStep ==
  ASSUME IInv, NEW e \in EventIds, RelayTries(e)
  PROVE  IInv'
<1>1. /\ status[e] # "absent" /\ tried' = tried \union {e} /\ UNCHANGED <<status, copies>>
      /\ UNCHANGED <<posts, history, envelope, declared, reached, waiting, parked, applied, rejects, replays>>
  BY DEF RelayTries, Outbox!Try, service, consumer, bounds
<1>2. Outbox!TypeOK' /\ Consumer!TypeOK'
  BY <1>1, IInvParts DEF TypeOK, Outbox!TypeOK, Consumer!TypeOK
<1>3. \A f \in EventIds : (f \in tried' \/ copies'[f] > 0) => status[f] # "absent"
  BY <1>1, IInvParts DEF EventsRouted
<1>4. \A q \in Queues : waiting'[q] \union parked'[q] \subseteq reached'[q]
  BY <1>1, IInvParts DEF EventsRouted
<1>5. rejects' \in 0..MaxRejects /\ replays' \in 0..MaxReplays
  BY <1>1, IInvParts DEF TypeOK
<1>6. QED
  BY <1>1, <1>2, <1>3, <1>4, <1>5, TransportStep

\* Copies of an event that is stored and bound to the queues they go to.
LEMMA RoutedStep ==
  ASSUME IInv, NEW e \in EventIds, NEW to \in SUBSET Queues, Consumer!Routed(e, to),
         to \subseteq Bound(e), status[e] # "absent",
         \/ parked' = parked
         \/ \E q \in Queues : parked' = [parked EXCEPT ![q] = parked[q] \ {e}],
         UNCHANGED applied
  PROVE  /\ Consumer!TypeOK'
         /\ \A q \in Queues : waiting'[q] \union parked'[q] \subseteq reached'[q]
         /\ \A q \in Queues : reached[q] \subseteq reached'[q]
         /\ \A q \in Queues : \A f \in reached'[q] \ reached[q] :
              status[f] # "absent" /\ q \in Bound(f)
<1>1. /\ reached \in [Queues -> SUBSET EventIds]
      /\ waiting \in [Queues -> SUBSET EventIds]
      /\ parked \in [Queues -> SUBSET EventIds]
      /\ applied \in [Queues -> [EventIds -> Nat]]
  BY IInvParts DEF TypeOK, Consumer!TypeOK
<1>2. /\ reached' = [q \in Queues |-> IF q \in to THEN reached[q] \union {e} ELSE reached[q]]
      /\ waiting' = [q \in Queues |-> IF q \in to THEN waiting[q] \union {e} ELSE waiting[q]]
  BY DEF Consumer!Routed
<1>3. parked' \in [Queues -> SUBSET EventIds] /\ \A q \in Queues : parked'[q] \subseteq parked[q]
  BY <1>1
<1>4. Consumer!TypeOK'
  BY <1>1, <1>2, <1>3 DEF Consumer!TypeOK
<1>5. \A q \in Queues : waiting[q] \union parked[q] \subseteq reached[q]
  BY IInvParts DEF EventsRouted
<1>6. \A q \in Queues : waiting'[q] \union parked'[q] \subseteq reached'[q]
  BY <1>2, <1>3, <1>5
<1>7. \A q \in Queues : \A f \in reached'[q] \ reached[q] : f = e /\ q \in to
  BY <1>2
<1>8. \A q \in Queues : reached[q] \subseteq reached'[q]
  BY <1>2
<1>9. QED
  BY <1>4, <1>6, <1>7, <1>8

LEMMA AcceptedStep ==
  ASSUME IInv, NEW e \in EventIds, Accepted(e)
  PROVE  IInv'
<1> DEFINE to == Bound(e) \intersect declared
<1>1. /\ e \in tried /\ copies' = [copies EXCEPT ![e] = copies[e] + 1] /\ UNCHANGED <<status, tried>>
      /\ Consumer!Routed(e, to) /\ UNCHANGED <<parked, applied>>
      /\ UNCHANGED <<posts, history, envelope, declared, rejects, replays>>
  BY DEF Accepted, Outbox!Accept, Consumer!Reach, service, bounds
<1>2. status[e] # "absent"
  BY <1>1, IInvParts DEF EventsRouted
<1>3. to \in SUBSET Queues
  BY IInvParts DEF TypeOK
<1>4. /\ Consumer!TypeOK'
      /\ \A q \in Queues : waiting'[q] \union parked'[q] \subseteq reached'[q]
      /\ \A q \in Queues : reached[q] \subseteq reached'[q]
      /\ \A q \in Queues : \A f \in reached'[q] \ reached[q] :
           status[f] # "absent" /\ q \in Bound(f)
  BY <1>1, <1>2, <1>3, RoutedStep
<1>5. Outbox!TypeOK'
  BY <1>1, IInvParts DEF TypeOK, Outbox!TypeOK
<1>6. \A f \in EventIds : (f \in tried' \/ copies'[f] > 0) => status[f] # "absent"
  BY <1>1, <1>2, IInvParts DEF EventsRouted, TypeOK, Outbox!TypeOK
<1>7. rejects' \in 0..MaxRejects /\ replays' \in 0..MaxReplays
  BY <1>1, IInvParts DEF TypeOK
<1>8. QED
  BY <1>1, <1>4, <1>5, <1>6, <1>7, TransportStep

LEMMA RelaySettlesStep ==
  ASSUME IInv, NEW e \in EventIds, RelaySettles(e)
  PROVE  IInv'
<1>1. /\ status[e] = "pending"
      /\ \E fate \in {"published", "dead"} : status' = [status EXCEPT ![e] = fate]
      /\ UNCHANGED <<tried, copies>>
      /\ UNCHANGED <<posts, history, envelope, declared, reached, waiting, parked, applied, rejects, replays>>
  BY DEF RelaySettles, Outbox!Publish, Outbox!GiveUp, service, consumer, bounds
<1>2. Outbox!TypeOK' /\ Consumer!TypeOK'
  BY <1>1, IInvParts DEF TypeOK, Outbox!TypeOK, Consumer!TypeOK
<1>3. \A f \in EventIds : status'[f] = "absent" <=> status[f] = "absent"
  BY <1>1, IInvParts DEF TypeOK, Outbox!TypeOK
<1>4. \A q \in Queues : waiting'[q] \union parked'[q] \subseteq reached'[q]
  BY <1>1, IInvParts DEF EventsRouted
<1>5. \A f \in EventIds : (f \in tried' \/ copies'[f] > 0) => status[f] # "absent"
  BY <1>1, IInvParts DEF EventsRouted
<1>6. rejects' \in 0..MaxRejects /\ replays' \in 0..MaxReplays
  BY <1>1, IInvParts DEF TypeOK
<1>7. QED
  BY <1>1, <1>2, <1>3, <1>4, <1>5, <1>6, TransportStep

LEMMA AcknowledgeStep ==
  ASSUME IInv, NEW q \in Queues, NEW e \in EventIds, Acknowledge(q, e)
  PROVE  IInv'
<1>1. /\ waiting' = [waiting EXCEPT ![q] = waiting[q] \ {e}]
      /\ UNCHANGED <<posts, history, envelope, status, tried, copies, declared, reached, parked, applied, rejects, replays>>
  BY DEF Acknowledge, Consumer!Finish, service, outbox, bounds
<1>2. Outbox!TypeOK' /\ Consumer!TypeOK'
  BY <1>1, IInvParts DEF TypeOK, Outbox!TypeOK, Consumer!TypeOK
<1>3. \A p \in Queues : waiting'[p] \union parked'[p] \subseteq reached'[p]
  BY <1>1, IInvParts DEF EventsRouted, TypeOK, Consumer!TypeOK
<1>4. \A f \in EventIds : (f \in tried' \/ copies'[f] > 0) => status[f] # "absent"
  BY <1>1, IInvParts DEF EventsRouted
<1>5. rejects' \in 0..MaxRejects /\ replays' \in 0..MaxReplays
  BY <1>1, IInvParts DEF TypeOK
<1>6. QED
  BY <1>1, <1>2, <1>3, <1>4, <1>5, TransportStep

LEMMA DeadLetterStep ==
  ASSUME IInv, NEW q \in Queues, NEW e \in EventIds, DeadLetter(q, e)
  PROVE  IInv'
<1>1. /\ e \in waiting[q]
      /\ parked' = [parked EXCEPT ![q] = parked[q] \union {e}]
      /\ waiting' = waiting \/ waiting' = [waiting EXCEPT ![q] = waiting[q] \ {e}]
      /\ rejects < MaxRejects /\ rejects' = rejects + 1
      /\ UNCHANGED <<posts, history, envelope, status, tried, copies, declared, reached, applied, replays>>
  BY DEF DeadLetter, Consumer!Park, service, outbox
<1>2. waiting' \in [Queues -> SUBSET EventIds] /\ \A p \in Queues : waiting'[p] \subseteq waiting[p]
  BY <1>1, IInvParts DEF TypeOK, Consumer!TypeOK
<1>3. Outbox!TypeOK' /\ Consumer!TypeOK'
  BY <1>1, <1>2, IInvParts DEF TypeOK, Outbox!TypeOK, Consumer!TypeOK
<1>4. \A p \in Queues : waiting'[p] \union parked'[p] \subseteq reached'[p]
  BY <1>1, <1>2, IInvParts DEF EventsRouted, TypeOK, Consumer!TypeOK
<1>5. \A f \in EventIds : (f \in tried' \/ copies'[f] > 0) => status[f] # "absent"
  BY <1>1, IInvParts DEF EventsRouted
<1>6. rejects' \in 0..MaxRejects /\ replays' \in 0..MaxReplays
  BY <1>1, IInvParts, ChainAssumption DEF TypeOK
<1>7. QED
  BY <1>1, <1>3, <1>4, <1>5, <1>6, TransportStep

LEMMA ReplayStep ==
  ASSUME IInv, NEW q \in Queues, NEW e \in EventIds, Replay(q, e)
  PROVE  IInv'
<1>1. /\ e \in parked[q]
      /\ replays < MaxReplays /\ replays' = replays + 1
      /\ UNCHANGED <<posts, history, envelope, status, tried, copies, declared, rejects>>
      /\ \E to \in {{}, Bound(e) \intersect declared} :
           Consumer!Release(q, e, to) \/ Consumer!Reach(e, to)
  BY DEF Replay, service, outbox
<1>2. PICK to \in {{}, Bound(e) \intersect declared} :
        Consumer!Release(q, e, to) \/ Consumer!Reach(e, to)
  BY <1>1
<1>3. /\ parked' = parked \/ parked' = [parked EXCEPT ![q] = parked[q] \ {e}]
      /\ Consumer!Routed(e, to)
      /\ UNCHANGED applied
  BY <1>2 DEF Consumer!Release, Consumer!Reach
<1>4. status[e] # "absent"
  BY <1>1, IInvParts DEF EventsRouted
<1>5. to \in SUBSET Queues /\ to \subseteq Bound(e)
  BY <1>2, IInvParts DEF TypeOK
<1>6. /\ Consumer!TypeOK'
      /\ \A p \in Queues : waiting'[p] \union parked'[p] \subseteq reached'[p]
      /\ \A p \in Queues : reached[p] \subseteq reached'[p]
      /\ \A p \in Queues : \A f \in reached'[p] \ reached[p] :
           status[f] # "absent" /\ p \in Bound(f)
  BY <1>3, <1>4, <1>5, RoutedStep
<1>7. Outbox!TypeOK'
  BY <1>1, IInvParts DEF TypeOK, Outbox!TypeOK
<1>8. \A f \in EventIds : (f \in tried' \/ copies'[f] > 0) => status[f] # "absent"
  BY <1>1, IInvParts DEF EventsRouted
<1>9. rejects' \in 0..MaxRejects /\ replays' \in 0..MaxReplays
  BY <1>1, IInvParts, ChainAssumption DEF TypeOK
<1>10. QED
  BY <1>1, <1>3, <1>6, <1>7, <1>8, <1>9, TransportStep

-----------------------------------------------------------------------------
(* The invariant holds, and the properties with it *)

LEMMA InitInvariant == Init => IInv
<1> SUFFICES ASSUME Init PROVE IInv
  OBVIOUS
<1> USE DEF Init, Outbox!Init, Consumer!Init
<1>1. posts \in [Commands -> Seq(Producers)] /\ rejects \in 0..MaxRejects /\ replays \in 0..MaxReplays
  BY ChainAssumption
<1>2. TypeOK
  BY <1>1 DEF TypeOK, Outbox!TypeOK, Consumer!TypeOK
<1>3. HistoryMatchesOutbox
  BY DEF HistoryMatchesOutbox
<1>4. CausesLinked
  BY DEF CausesLinked
<1>5. OneOutcomePerCause
  BY DEF OneOutcomePerCause
<1>6. EventsRouted
  BY DEF EventsRouted
<1>7. QED
  BY <1>2, <1>3, <1>4, <1>5, <1>6 DEF IInv

LEMMA StepInvariant == IInv /\ [Next]_vars => IInv'
<1> SUFFICES ASSUME IInv, [Next]_vars PROVE IInv'
  OBVIOUS
<1>1. CASE \E c \in Commands : Post(c) \/ PostGivenUp(c)
  BY <1>1, PostStep, PostGivenUpStep
<1>2. CASE \E q \in Queues : Declare(q)
  BY <1>2, DeclareStep
<1>3. CASE \E e \in EventIds : Relay(e)
  BY <1>3, RelayTriesStep, AcceptedStep, RelaySettlesStep DEF Relay
<1>4. CASE \E q \in Queues, e \in EventIds : Answer(q, e) \/ Replay(q, e)
  BY <1>4, HandleStep, StoreStep, AcknowledgeStep, DeadLetterStep, ReplayStep DEF Answer
<1>5. CASE UNCHANGED vars
  <2> USE <1>5 DEF vars, service, outbox, consumer, bounds
  <2>1. TypeOK'
    BY IInvParts DEF TypeOK, Outbox!TypeOK, Consumer!TypeOK
  <2>2. HistoryMatchesOutbox' /\ CausesLinked' /\ OneOutcomePerCause'
    BY IInvParts DEF HistoryMatchesOutbox, CausesLinked, OneOutcomePerCause
  <2>3. EventsRouted'
    BY IInvParts DEF EventsRouted, Bound
  <2>4. QED
    BY <2>1, <2>2, <2>3 DEF IInv
<1>6. QED
  BY <1>1, <1>2, <1>3, <1>4, <1>5 DEF Next

\* Every reachable state satisfies the inductive invariant.
THEOREM Invariant == Spec => []IInv
BY InitInvariant, StepInvariant, PTL DEF Spec

\* Histories, outboxes and queues keep their types for any number of services,
\* commands, events and pipelines.
THEOREM TypeCorrect == Spec => []TypeOK
BY Invariant, IInvParts, PTL

\* No row without its event and no event without its row, whatever is posted or
\* handled beside it.
THEOREM HistoryMatchesOutboxHolds == Spec => []HistoryMatchesOutbox
BY Invariant, IInvParts, PTL

\* Each row of a handler leads to the row of the service before it, about the same
\* command, and the audit service stores nothing else.
THEOREM CausesLinkedHolds == Spec => []CausesLinked
BY Invariant, IInvParts, PTL

\* However often an event is published, delivered or replayed, a service draws one
\* conclusion from it.
THEOREM OneOutcomePerCauseHolds == Spec => []OneOutcomePerCause
BY Invariant, IInvParts, PTL

\* The composition uses its parts as they allow: each step of the chain is a step of
\* the abstract outbox or leaves it alone.
THEOREM OutboxRespected == Spec => Outbox!Spec
<1>1. Init => Outbox!Init
  BY DEF Init
<1>2. [Next]_vars => [Outbox!Next]_(Outbox!vars)
  <2> SUFFICES ASSUME [Next]_vars PROVE [Outbox!Next]_(Outbox!vars)
    OBVIOUS
  <2>1. ASSUME NEW s, NEW trace, NEW cause, Record(s, trace, cause)
        PROVE  Outbox!Next
    <3>1. NewId \in EventIds
      BY <2>1 DEF Record, Unused, NewId
    <3>2. QED
      BY <2>1, <3>1 DEF Record, Outbox!Next
  <2>2. CASE \E c \in Commands : Post(c)
    BY <2>1, <2>2 DEF Post
  <2>3. CASE \E c \in Commands : PostGivenUp(c)
    BY <2>3 DEF PostGivenUp, outbox, Outbox!vars
  <2>4. CASE \E q \in Queues : Declare(q)
    BY <2>4 DEF Declare, outbox, Outbox!vars
  <2>5. CASE \E e \in EventIds : Relay(e)
    BY <2>5 DEF Relay, RelayTries, Accepted, RelaySettles, Outbox!Next
  <2>6. CASE \E q \in Queues, e \in EventIds : Handle(q, e)
    BY <2>1, <2>6 DEF Handle
  <2>7. CASE \E q \in Queues, e \in EventIds :
               Store(e) \/ Acknowledge(q, e) \/ DeadLetter(q, e) \/ Replay(q, e)
    BY <2>7 DEF Store, Acknowledge, DeadLetter, Replay, outbox, Outbox!vars
  <2>8. CASE UNCHANGED vars
    BY <2>8 DEF vars, outbox, Outbox!vars
  <2>9. QED
    BY <2>2, <2>3, <2>4, <2>5, <2>6, <2>7, <2>8 DEF Next, Answer
<1>3. QED
  BY <1>1, <1>2, PTL DEF Spec, Outbox!Spec

\* Likewise for the abstract consumer.
THEOREM ConsumerRespected == Spec => Consumer!Spec
<1>1. Init => Consumer!Init
  BY DEF Init
<1>2. TypeOK /\ [Next]_vars => [Consumer!Next]_(Consumer!vars)
  <2> SUFFICES ASSUME TypeOK, [Next]_vars PROVE [Consumer!Next]_(Consumer!vars)
    OBVIOUS
  <2>1. \A e \in EventIds : Bound(e) \intersect declared \in SUBSET Queues
    BY DEF TypeOK
  <2>2. CASE \E c \in Commands : Post(c) \/ PostGivenUp(c)
    BY <2>2 DEF Post, PostGivenUp, consumer, Consumer!vars
  <2>3. CASE \E q \in Queues : Declare(q)
    BY <2>3 DEF Declare, consumer, Consumer!vars
  <2>4. CASE \E e \in EventIds : RelayTries(e) \/ RelaySettles(e)
    BY <2>4 DEF RelayTries, RelaySettles, consumer, Consumer!vars
  <2>5. CASE \E e \in EventIds : Accepted(e)
    BY <2>1, <2>5 DEF Accepted, Consumer!Next
  <2>6. CASE \E q \in Queues, e \in EventIds : Handle(q, e) \/ Acknowledge(q, e) \/ DeadLetter(q, e)
    BY <2>6 DEF Handle, Acknowledge, DeadLetter, Consumer!Next
  <2>7. CASE \E e \in EventIds : Store(e)
    BY <2>7 DEF Store, Queues, Consumer!Next
  <2>8. CASE \E q \in Queues, e \in EventIds : Replay(q, e)
    <3>1. PICK q \in Queues, e \in EventIds : Replay(q, e)
      BY <2>8
    <3>2. PICK to \in {{}, Bound(e) \intersect declared} :
            Consumer!Release(q, e, to) \/ Consumer!Reach(e, to)
      BY <3>1 DEF Replay
    <3>3. to \in SUBSET Queues
      BY <2>1, <3>2
    <3>4. QED
      BY <3>2, <3>3 DEF Consumer!Next
  <2>9. CASE UNCHANGED vars
    BY <2>9 DEF vars, consumer, Consumer!vars
  <2>10. QED
    BY <2>2, <2>3, <2>4, <2>5, <2>6, <2>7, <2>8, <2>9 DEF Next, Relay, Answer
<1>3. QED
  BY <1>1, <1>2, TypeCorrect, PTL DEF Spec, Consumer!Spec
-----------------------------------------------------------------------------
(***************************************************************************)
(* One row per post.  Each row of a handler has the row of the service     *)
(* before it for its cause, and so on to the row of a post.  Following     *)
(* causes from two rows of one history never leads to the same post: a     *)
(* service draws one conclusion from one event, and no event of a service  *)
(* comes back to it.                                                       *)
(***************************************************************************)
\* root leads from each event to the post that its causes lead back to.
RootedBy(rank, root) ==
  /\ root \in [EventIds -> EventIds]
  /\ \A s \in Producers : \A r \in history[s] :
       /\ root[r.id] \in Posted(r.trace)
       /\ r.cause = None => root[r.id] = r.id
       /\ r.cause # None => /\ root[r.id] = root[r.cause]
                            /\ rank[envelope[root[r.id]].producer] < rank[s]
  /\ \A s \in Producers : \A r1, r2 \in history[s] :
       root[r1.id] = root[r2.id] => r1 = r2

Rooted == \E rank \in Orders, root \in [EventIds -> EventIds] : RootedBy(rank, root)

\* Ranks are numbers that fall along the chain.
LEMMA RanksFall ==
  ASSUME NEW rank \in Orders, NEW s \in Producers
  PROVE  /\ rank[s] \in Nat
         /\ Upstream[s] # None => Upstream[s] \in Producers /\ rank[Upstream[s]] < rank[s]
<1>1. Cardinality(Producers) \in Nat
  BY NoCircle, FS_CardinalityType
<1>2. QED
  BY <1>1, ChainAssumption DEF Orders

\* The event of a row names its service, its command and its cause.
LEMMA RowsHaveEvents ==
  ASSUME IInv, NEW s \in Producers, NEW r \in history[s]
  PROVE  /\ r.id \in EventIds /\ r.trace \in Commands
         /\ r.cause \in EventIds \union {None}
         /\ envelope[r.id] # None
         /\ envelope[r.id].producer = s
         /\ envelope[r.id].trace = r.trace
         /\ envelope[r.id].cause = r.cause
<1>1. r \in Row
  BY IInvParts DEF TypeOK
<1>2. envelope[r.id] = [producer |-> s, trace |-> r.trace, cause |-> r.cause]
  BY IInvParts DEF HistoryMatchesOutbox
<1>3. envelope[r.id] \in Envelope
  BY <1>1, <1>2 DEF Row, Envelope
<1>4. QED
  BY <1>1, <1>2, <1>3, ChainAssumption DEF Row

\* The cause of a row is the event of a row, about the same command, of the service
\* before.
LEMMA CauseIsUpstream ==
  ASSUME IInv, NEW s \in Producers, NEW e \in EventIds, s \in ChainQueues, e \in reached[s]
  PROVE  /\ Upstream[s] \in Producers
         /\ \E p \in history[Upstream[s]] : p.id = e /\ p.trace = envelope[e].trace
<1>1. status[e] # "absent" /\ s \in Bound(e)
  BY IInvParts DEF EventsRouted, Queues
<1>2. s # Audit
  BY ChainAssumption
<1>3. Upstream[s] = envelope[e].producer
  BY <1>1, <1>2 DEF Bound
<1>4. [id |-> e, trace |-> envelope[e].trace, cause |-> envelope[e].cause]
        \in history[envelope[e].producer]
  BY <1>1, IInvParts DEF HistoryMatchesOutbox
<1>5. Upstream[s] \in Producers
  BY ChainAssumption DEF ChainQueues
<1>6. QED
  BY <1>3, <1>4, <1>5

\* A new row has a root that no row of its history has.
LEMMA RecordRooted ==
  ASSUME IInv, NEW s \in Producers, NEW trace \in Commands, NEW cause \in EventIds \union {None},
         Record(s, trace, cause),
         cause # None =>
           /\ s \in ChainQueues
           /\ cause \in reached[s]
           /\ applied[s][cause] = 0
           /\ envelope[cause].trace = trace,
         NEW rank \in Orders, NEW root, RootedBy(rank, root)
  PROVE  \E root2 \in [EventIds -> EventIds] : RootedBy(rank, root2)'
<1> DEFINE new == NewId
           row == [id |-> new, trace |-> trace, cause |-> cause]
           origin == IF cause = None THEN new ELSE root[cause]
<1>1. /\ new \in EventIds
      /\ \A t \in Producers \ {s} : history'[t] = history[t]
      /\ history'[s] = history[s] \union {row}
      /\ \A e \in EventIds \ {new} : envelope'[e] = envelope[e]
      /\ envelope'[new] = [producer |-> s, trace |-> trace, cause |-> cause]
      /\ envelope'[new] \in Envelope
  BY RecordedTables DEF Envelope
<1>2. /\ envelope[new] = None
      /\ \A t \in Producers : \A r \in history[t] : r.id # new /\ r.cause # new
  BY NewIdUnknown DEF Record
<1>3. root \in [EventIds -> EventIds]
  BY DEF RootedBy
<1>4. \A c \in Commands : \A e \in Posted(c) :
        e \in EventIds \ {new} /\ envelope[e] \in Envelope /\ e \in Posted(c)' /\ envelope'[e] = envelope[e]
  BY <1>1, <1>2, IInvParts DEF Posted, TypeOK
<1>5. /\ origin \in Posted(trace)'
      /\ cause = None => origin = new
      /\ cause # None => rank[envelope'[origin].producer] < rank[s] /\ origin = root[cause]
      /\ \A r \in history[s] : root[r.id] # origin
  <2>1. CASE cause = None
    <3>1. new \in Posted(trace)'
      BY <1>1, <2>1, ChainAssumption DEF Posted
    <3>2. ASSUME NEW r \in history[s] PROVE root[r.id] # new
      <4>1. root[r.id] \in Posted(r.trace) /\ r.trace \in Commands
        BY RowsHaveEvents DEF RootedBy
      <4>2. QED
        BY <1>4, <4>1
    <3>3. QED
      BY <2>1, <3>1, <3>2
  <2>2. CASE cause # None
    <3> DEFINE up == Upstream[s]
    <3>1. cause \in EventIds /\ up \in Producers /\ up # None
      BY <2>2, CauseIsUpstream, ChainAssumption
    <3>2. PICK p \in history[up] : p.id = cause /\ p.trace = trace
      BY <2>2, <3>1, CauseIsUpstream
    <3>3. root[cause] \in Posted(trace) /\ root[cause] \in EventIds \ {new}
      BY <1>4, <3>1, <3>2 DEF RootedBy
    <3>4. rank[envelope[root[cause]].producer] < rank[s]
      <4>1. rank[up] < rank[s] /\ rank[up] \in Nat /\ rank[s] \in Nat
        BY <3>1, RanksFall
      <4>2. CASE p.cause = None
        <5>1. root[cause] = cause /\ envelope[cause].producer = up
          BY <3>1, <3>2, <4>2, RowsHaveEvents DEF RootedBy
        <5>2. QED
          BY <4>1, <5>1
      <4>3. CASE p.cause # None
        <5>1. rank[envelope[root[cause]].producer] < rank[up]
          BY <3>1, <3>2, <4>3 DEF RootedBy
        <5>2. envelope[root[cause]] \in Envelope
          BY <1>4, <3>3
        <5>3. rank[envelope[root[cause]].producer] \in Nat
          BY <5>2, RanksFall DEF Envelope
        <5>4. QED
          BY <4>1, <5>1, <5>3
      <4>4. QED
        BY <4>2, <4>3
    <3>5. ASSUME NEW r \in history[s], root[r.id] = root[cause] PROVE FALSE
      <4>1. CASE r.cause = None
        <5>1. root[r.id] = r.id /\ envelope[r.id].producer = s
          BY <4>1, RowsHaveEvents DEF RootedBy
        <5>2. rank[s] < rank[s] /\ rank[s] \in Nat
          BY <3>4, <3>5, <5>1, RanksFall
        <5>3. QED
          BY <5>2
      <4>2. CASE r.cause # None
        <5>1. root[r.cause] = root[cause]
          BY <3>5, <4>2 DEF RootedBy
        <5>2. PICK p2 \in history[up] : p2.id = r.cause
          BY <4>2, IInvParts DEF CausesLinked
        <5>3. p2 = p
          BY <3>1, <3>2, <5>1, <5>2 DEF RootedBy
        <5>4. r.cause = cause
          BY <3>2, <5>2, <5>3
        <5>5. applied[s][cause] > 0
          BY <4>2, <5>4, IInvParts DEF EventsRouted
        <5>6. QED
          BY <2>2, <5>5
      <4>3. QED
        BY <4>1, <4>2
    <3>6. QED
      BY <1>4, <2>2, <3>3, <3>4, <3>5
  <2>3. QED
    BY <2>1, <2>2
<1>6. PICK root2 \in [EventIds -> EventIds] :
        root2[new] = origin /\ \A e \in EventIds \ {new} : root2[e] = root[e]
  <2>1. origin \in EventIds
    BY <1>5 DEF Posted
  <2>2. [root EXCEPT ![new] = origin] \in [EventIds -> EventIds]
    BY <1>3, <2>1
  <2>3. QED
    BY <1>1, <1>3, <2>2
<1>7. ASSUME NEW t \in Producers, NEW r \in history[t]
      PROVE  /\ root2[r.id] = root[r.id]
             /\ root2[r.id] \in Posted(r.trace)'
             /\ r.cause = None => root2[r.id] = r.id
             /\ r.cause # None => /\ root2[r.id] = root2[r.cause]
                                  /\ rank[envelope'[root2[r.id]].producer] < rank[t]
  <2>1. r.id \in EventIds \ {new} /\ r.cause \in (EventIds \ {new}) \union {None} /\ r.trace \in Commands
    BY <1>1, <1>2, RowsHaveEvents, ChainAssumption
  <2>2. root2[r.id] = root[r.id] /\ (r.cause # None => root2[r.cause] = root[r.cause])
    BY <1>6, <2>1
  <2>3. root[r.id] \in Posted(r.trace)
    BY DEF RootedBy
  <2>4. root[r.id] \in Posted(r.trace)' /\ envelope'[root[r.id]] = envelope[root[r.id]]
    BY <1>4, <2>1, <2>3
  <2>5. QED
    BY <2>2, <2>4 DEF RootedBy
<1>8. /\ root2[row.id] \in Posted(row.trace)'
      /\ row.cause = None => root2[row.id] = row.id
      /\ row.cause # None => /\ root2[row.id] = root2[row.cause]
                             /\ rank[envelope'[root2[row.id]].producer] < rank[s]
  <2>1. cause # None => root2[cause] = root[cause]
    <3>1. cause # None => cause # new
      BY <1>2, CauseIsUpstream
    <3>2. QED
      BY <1>6, <3>1
  <2>2. QED
    BY <1>5, <1>6, <2>1
<1>9. ASSUME NEW t \in Producers, NEW r \in history'[t]
      PROVE  /\ root2[r.id] \in Posted(r.trace)'
             /\ r.cause = None => root2[r.id] = r.id
             /\ r.cause # None => /\ root2[r.id] = root2[r.cause]
                                  /\ rank[envelope'[root2[r.id]].producer] < rank[t]
  <2>1. CASE r \in history[t]
    BY <1>7, <2>1
  <2>2. CASE t = s /\ r = row
    BY <1>8, <2>2
  <2>3. QED
    BY <1>1, <1>9, <2>1, <2>2
<1>10. ASSUME NEW t \in Producers, NEW r1 \in history'[t], NEW r2 \in history'[t],
              root2[r1.id] = root2[r2.id]
       PROVE  r1 = r2
  <2>1. CASE r1 \in history[t] /\ r2 \in history[t]
    BY <1>7, <1>10, <2>1 DEF RootedBy
  <2>2. CASE t = s /\ r1 = row /\ r2 \in history[t]
    BY <1>5, <1>6, <1>7, <1>10, <2>2
  <2>3. CASE t = s /\ r2 = row /\ r1 \in history[t]
    BY <1>5, <1>6, <1>7, <1>10, <2>3
  <2>4. QED
    BY <1>1, <2>1, <2>2, <2>3
<1>11. RootedBy(rank, root2)'
  BY <1>6, <1>9, <1>10 DEF RootedBy
<1>12. QED
  BY <1>6, <1>11

\* Only posts and handlers of the services write histories and envelopes.
LEMMA WhoRecords ==
  ASSUME IInv, [Next]_vars
  PROVE  \/ \E c \in Commands : Post(c)
         \/ \E q \in Queues, e \in EventIds : Handle(q, e)
         \/ /\ envelope' = envelope
            /\ \A s \in Producers : history'[s] = history[s]
            /\ \/ posts' = posts
               \/ \E c \in Commands : posts' = [posts EXCEPT ![c] = <<>>]
<1>1. CASE \E c \in Commands : PostGivenUp(c)
  BY <1>1 DEF PostGivenUp, service
<1>2. CASE \E e \in EventIds : Store(e)
  <2>1. PICK e \in EventIds : Store(e)
    BY <1>2
  <2>2. \A s \in Producers : history'[s] = history[s]
    BY <2>1, IInvParts, ChainAssumption DEF Store, TypeOK
  <2>3. QED
    BY <2>1, <2>2 DEF Store
<1>3. CASE \/ UNCHANGED vars
           \/ \E q \in Queues : Declare(q)
           \/ \E e \in EventIds : Relay(e)
           \/ \E q \in Queues, e \in EventIds :
                Acknowledge(q, e) \/ DeadLetter(q, e) \/ Replay(q, e)
  BY <1>3 DEF vars, service, Declare, Relay, RelayTries, Accepted, RelaySettles, Acknowledge,
              DeadLetter, Replay
<1>4. QED
  BY <1>1, <1>2, <1>3 DEF Next, Answer

\* What a handler records: an event that reached it and that it had not handled.
LEMMA HandledIsNew ==
  ASSUME IInv, NEW q \in Queues, NEW e \in EventIds, Handle(q, e)
  PROVE  /\ q \in Producers /\ q \in ChainQueues
         /\ e # None /\ e \in reached[q] /\ applied[q][e] = 0
         /\ envelope[e].trace \in Commands
         /\ Record(q, envelope[e].trace, e)
         /\ UNCHANGED posts
<1>1. q \in ChainQueues /\ Consumer!Apply(q, e) /\ Record(q, envelope[e].trace, e) /\ UNCHANGED posts
  BY DEF Handle
<1>2. e \in reached[q] /\ applied[q][e] = 0
  BY <1>1, ApplyStep
<1>3. status[e] # "absent"
  BY <1>2, IInvParts DEF EventsRouted
<1>4. envelope[e].trace \in Commands
  BY <1>3, IInvParts DEF HistoryMatchesOutbox, TypeOK, Envelope
<1>5. QED
  BY <1>1, <1>2, <1>4, ChainAssumption DEF ChainQueues

\* What a post records, and where.
LEMMA PostRecords ==
  ASSUME IInv, NEW c \in Commands, Post(c)
  PROVE  /\ posts[c] \in Seq(Producers) /\ posts[c] # <<>>
         /\ Head(posts[c]) \in Producers
         /\ Record(Head(posts[c]), c, None)
         /\ posts' = [posts EXCEPT ![c] = Tail(posts[c])]
<1>1. posts[c] \in Seq(Producers) /\ posts[c] # <<>>
  BY IInvParts DEF TypeOK, Post
<1>2. Head(posts[c]) \in Producers
  BY <1>1
<1>3. QED
  BY <1>1, <1>2 DEF Post

LEMMA InitRooted == Init => Rooted
<1> SUFFICES ASSUME Init PROVE Rooted
  OBVIOUS
<1>1. PICK rank \in Orders : TRUE
  BY NoCircle
<1>2. \A s \in Producers : history[s] = {}
  BY DEF Init
<1>3. [e \in EventIds |-> e] \in [EventIds -> EventIds]
  OBVIOUS
<1>4. RootedBy(rank, [e \in EventIds |-> e])
  BY <1>2, <1>3 DEF RootedBy
<1>5. QED
  BY <1>1, <1>3, <1>4 DEF Rooted

LEMMA StepRooted == IInv /\ Rooted /\ [Next]_vars => Rooted'
<1> SUFFICES ASSUME IInv, Rooted, [Next]_vars PROVE Rooted'
  OBVIOUS
<1>1. PICK rank \in Orders, root \in [EventIds -> EventIds] : RootedBy(rank, root)
  BY DEF Rooted
<1>2. CASE \E c \in Commands : Post(c)
  <2>1. PICK c \in Commands : Post(c)
    BY <1>2
  <2>2. \E root2 \in [EventIds -> EventIds] : RootedBy(rank, root2)'
    BY <1>1, <2>1, PostRecords, RecordRooted
  <2>3. QED
    BY <2>2 DEF Rooted
<1>3. CASE \E q \in Queues, e \in EventIds : Handle(q, e)
  <2>1. PICK q \in Queues, e \in EventIds : Handle(q, e)
    BY <1>3
  <2>2. \E root2 \in [EventIds -> EventIds] : RootedBy(rank, root2)'
    BY <1>1, <2>1, HandledIsNew, RecordRooted
  <2>3. QED
    BY <2>2 DEF Rooted
<1>4. CASE envelope' = envelope /\ \A s \in Producers : history'[s] = history[s]
  <2>1. RootedBy(rank, root)'
    BY <1>1, <1>4 DEF RootedBy, Posted
  <2>2. QED
    BY <1>1, <2>1 DEF Rooted
<1>5. QED
  BY <1>2, <1>3, <1>4, WhoRecords

\* A post adds one to the posts its command made and takes one from those it has
\* yet to make; nothing else adds any.
LEMMA StepPosted ==
  ASSUME IInv, [Next]_vars, NEW c \in Commands
  PROVE  \/ /\ Posted(c)' = Posted(c)
            /\ posts'[c] = posts[c] \/ posts'[c] = <<>>
         \/ \E e \in EventIds : /\ Posted(c)' = Posted(c) \union {e}
                                /\ posts[c] # <<>> /\ posts'[c] = Tail(posts[c])
<1>0. posts \in [Commands -> Seq(Producers)] /\ envelope \in [EventIds -> Envelope \union {None}]
  BY IInvParts DEF TypeOK
<1>1. ASSUME NEW s \in Producers, NEW trace \in Commands, NEW cause \in EventIds \union {None},
             Record(s, trace, cause)
      PROVE  /\ NewId \in EventIds
             /\ Posted(c)' = IF trace = c /\ cause = None THEN Posted(c) \union {NewId} ELSE Posted(c)
  <2>1. /\ NewId \in EventIds
        /\ \A e \in EventIds \ {NewId} : envelope'[e] = envelope[e]
        /\ envelope'[NewId] = [producer |-> s, trace |-> trace, cause |-> cause]
        /\ envelope[NewId] = None
    <3>1. Unused # {}
      BY <1>1 DEF Record
    <3>2. QED
      BY <1>1, <3>1, RecordedTables, NewIdUnknown
  <2>2. \A e \in EventIds : e \in Posted(c)' <=>
          \/ e \in Posted(c)
          \/ e = NewId /\ trace = c /\ cause = None
    <3>1. [producer |-> s, trace |-> trace, cause |-> cause] # None
      BY ChainAssumption DEF Envelope
    <3>2. QED
      BY <2>1, <3>1 DEF Posted
  <2>3. Posted(c) \subseteq EventIds /\ Posted(c)' \subseteq EventIds
    BY DEF Posted
  <2>4. QED
    BY <2>1, <2>2, <2>3
<1>2. CASE \E d \in Commands : Post(d)
  <2>1. PICK d \in Commands : Post(d)
    BY <1>2
  <2>2. /\ Posted(c)' = IF d = c THEN Posted(c) \union {NewId} ELSE Posted(c)
        /\ NewId \in EventIds
        /\ posts' = [posts EXCEPT ![d] = Tail(posts[d])] /\ posts[d] # <<>>
    BY <1>1, <2>1, PostRecords
  <2>3. QED
    BY <1>0, <2>2
<1>3. CASE \E q \in Queues, e \in EventIds : Handle(q, e)
  BY <1>1, <1>3, HandledIsNew
<1>4. CASE /\ envelope' = envelope
           /\ \/ posts' = posts
              \/ \E d \in Commands : posts' = [posts EXCEPT ![d] = <<>>]
  BY <1>0, <1>4 DEF Posted
<1>5. QED
  BY <1>2, <1>3, <1>4, WhoRecords

\* Rows with different roots, and their roots are posts.
LEMMA RootsCount ==
  ASSUME Rooted, NEW c \in Commands, NEW s \in Producers, IsFiniteSet(Posted(c))
  PROVE  /\ Cardinality(About(s, c)) \in Nat
         /\ Cardinality(About(s, c)) <= Cardinality(Posted(c))
<1>1. PICK rank \in Orders, root \in [EventIds -> EventIds] : RootedBy(rank, root)
  BY DEF Rooted
<1> DEFINE f == [r \in About(s, c) |-> root[r.id]]
<1>2. \A r \in About(s, c) : root[r.id] \in Posted(c)
  BY <1>1 DEF RootedBy, About
<1>3. \A r1, r2 \in About(s, c) : root[r1.id] = root[r2.id] => r1 = r2
  BY <1>1 DEF RootedBy, About
<1>4. f \in Injection(About(s, c), Posted(c))
  BY <1>2, <1>3 DEF Injection, IsInjective
<1>5. QED
  BY <1>4, FS_Injection, FS_CardinalityType

PostedFinite == \A c \in Commands : IsFiniteSet(Posted(c))

\* No history has more rows about a command than the command made posts: rows with
\* different roots, for posts of the command.
THEOREM OneRowPerPostHolds == Spec => []OneRowPerPost
<1>1. Init => PostedFinite
  <2> SUFFICES ASSUME Init, NEW c \in Commands PROVE IsFiniteSet(Posted(c))
    BY DEF PostedFinite
  <2>1. Posted(c) = {}
    BY DEF Init, Posted
  <2>2. QED
    BY <2>1, FS_EmptySet
<1>2. IInv /\ PostedFinite /\ [Next]_vars => PostedFinite'
  <2> SUFFICES ASSUME IInv, PostedFinite, [Next]_vars, NEW c \in Commands
               PROVE  IsFiniteSet(Posted(c)')
    BY DEF PostedFinite
  <2>1. IsFiniteSet(Posted(c))
    BY DEF PostedFinite
  <2>2. QED
    BY <2>1, StepPosted, FS_AddElement
<1>3. Rooted /\ PostedFinite => OneRowPerPost
  BY RootsCount DEF PostedFinite, OneRowPerPost
<1>4. QED
  BY <1>1, <1>2, <1>3, InitRooted, StepRooted, Invariant, PTL DEF Spec

\* So a command whose pipelines have at most n posts leaves at most n rows in any
\* history, one for an intake: what SingleHistory gets wrong is what the gateway
\* posts and not what brokers repeat.
THEOREM HistoriesBounded ==
  ASSUME NEW n \in Nat, \A p \in Pipelines : Len(p) <= n
  PROVE  Spec => [](\A c \in Commands, s \in Producers : Cardinality(About(s, c)) <= n)
<1> DEFINE Counted == \A c \in Commands : /\ IsFiniteSet(Posted(c))
                                          /\ Cardinality(Posted(c)) + Len(posts[c]) <= n
<1>1. Init => Counted
  <2> SUFFICES ASSUME Init, NEW c \in Commands
               PROVE  IsFiniteSet(Posted(c)) /\ Cardinality(Posted(c)) + Len(posts[c]) <= n
    OBVIOUS
  <2>1. Posted(c) = {} /\ posts[c] \in Pipelines
    BY DEF Init, Posted
  <2>2. Len(posts[c]) \in Nat
    BY <2>1, ChainAssumption
  <2>3. QED
    BY <2>1, <2>2, FS_EmptySet
<1>2. IInv /\ Counted /\ [Next]_vars => Counted'
  <2> SUFFICES ASSUME IInv, Counted, [Next]_vars, NEW c \in Commands
               PROVE  IsFiniteSet(Posted(c)') /\ Cardinality(Posted(c)') + Len(posts'[c]) <= n
    OBVIOUS
  <2>1. /\ IsFiniteSet(Posted(c)) /\ Cardinality(Posted(c)) \in Nat
        /\ Cardinality(Posted(c)) + Len(posts[c]) <= n
        /\ posts[c] \in Seq(Producers) /\ Len(posts[c]) \in Nat
    BY FS_CardinalityType, IInvParts DEF TypeOK
  <2>2. CASE Posted(c)' = Posted(c) /\ (posts'[c] = posts[c] \/ posts'[c] = <<>>)
    BY <2>1, <2>2
  <2>3. ASSUME NEW e \in EventIds, Posted(c)' = Posted(c) \union {e},
               posts[c] # <<>>, posts'[c] = Tail(posts[c])
        PROVE  IsFiniteSet(Posted(c)') /\ Cardinality(Posted(c)') + Len(posts'[c]) <= n
    <3>1. IsFiniteSet(Posted(c)') /\ Cardinality(Posted(c)') <= Cardinality(Posted(c)) + 1
          /\ Cardinality(Posted(c)') \in Nat
      <4> DEFINE P == Posted(c)
      <4>1. /\ IsFiniteSet(P \union {e})
            /\ Cardinality(P \union {e}) \in {Cardinality(P), Cardinality(P) + 1}
        BY <2>1, FS_AddElement
      <4>2. IsFiniteSet(Posted(c)')
            /\ Cardinality(Posted(c)') \in {Cardinality(Posted(c)), Cardinality(Posted(c)) + 1}
        BY <2>3, <4>1
      <4>3. QED
        BY <2>1, <4>2
    <3>2. Len(posts'[c]) = Len(posts[c]) - 1 /\ Len(posts'[c]) \in Nat
      BY <2>1, <2>3
    <3>3. QED
      BY <2>1, <3>1, <3>2
  <2>4. QED
    BY <2>2, <2>3, StepPosted
<1>3. IInv /\ Counted /\ Rooted => \A c \in Commands, s \in Producers : Cardinality(About(s, c)) <= n
  <2> SUFFICES ASSUME IInv, Counted, Rooted, NEW c \in Commands, NEW s \in Producers
               PROVE  Cardinality(About(s, c)) <= n
    OBVIOUS
  <2>1. /\ IsFiniteSet(Posted(c)) /\ Cardinality(Posted(c)) \in Nat
        /\ Cardinality(Posted(c)) + Len(posts[c]) <= n
        /\ Len(posts[c]) \in Nat
    BY FS_CardinalityType, IInvParts DEF TypeOK
  <2>2. Cardinality(About(s, c)) \in Nat /\ Cardinality(About(s, c)) <= Cardinality(Posted(c))
    BY <2>1, RootsCount
  <2>3. QED
    BY <2>1, <2>2
<1> HIDE DEF Counted
<1>4. QED
  BY <1>1, <1>2, <1>3, InitRooted, StepRooted, Invariant, PTL DEF Spec

-----------------------------------------------------------------------------
(***************************************************************************)
(* Where a command stands can be seen: the inbox of a service names the    *)
(* events it has a row for, no more and no fewer, so an event that neither *)
(* waits nor led to a row was given up, dropped or dead-lettered.          *)
(***************************************************************************)
\* The row a consumer keeps of an event: its own conclusion, or the event itself.
Concluded(q, e) == \E r \in history[q] : IF q = Audit THEN r.id = e ELSE r.cause = e

ConclusionsMatchInbox ==
  \A q \in Queues, e \in EventIds : applied[q][e] > 0 <=> Concluded(q, e)

\* The safety part of ChainCompletes.
StopsShow ==
  \A s, t \in Producers : Upstream[t] = s => \A r \in history[s] :
    \/ status[r.id] = "pending"
    \/ r.id \in waiting[t]
    \/ \E next \in history[t] : next.cause = r.id /\ next.trace = r.trace
    \/ Interrupted(r.trace)

\* Only handlers, the audit service's among them, fill an inbox.
LEMMA WhoConcludes ==
  ASSUME IInv, [Next]_vars
  PROVE  \/ \E c \in Commands : Post(c)
         \/ \E q \in Queues, e \in EventIds : Handle(q, e)
         \/ \E e \in EventIds : Store(e)
         \/ UNCHANGED <<history, applied>>
<1>1. CASE \E e \in EventIds : Relay(e)
  BY <1>1 DEF Relay, RelayTries, Accepted, RelaySettles, service, consumer, Consumer!Reach
<1>2. CASE \E q \in Queues, e \in EventIds : Acknowledge(q, e) \/ DeadLetter(q, e)
  BY <1>2 DEF Acknowledge, DeadLetter, service, Consumer!Finish, Consumer!Park
<1>3. CASE \E q \in Queues, e \in EventIds : Replay(q, e)
  BY <1>3 DEF Replay, service, Consumer!Release, Consumer!Reach
<1>4. CASE UNCHANGED vars \/ \E c \in Commands : PostGivenUp(c)
  BY <1>4 DEF vars, PostGivenUp, service, consumer
<1>5. CASE \E q \in Queues : Declare(q)
  BY <1>5 DEF Declare, service, consumer
<1>6. QED
  BY <1>1, <1>2, <1>3, <1>4, <1>5 DEF Next, Answer

\* One event of one inbox is taken up.
LEMMA InboxGains ==
  ASSUME IInv, NEW q \in Queues, NEW e \in EventIds, Consumer!Apply(q, e)
  PROVE  \A p \in Queues, f \in EventIds : applied'[p][f] > 0 <=> applied[p][f] > 0 \/ (p = q /\ f = e)
<1>1. applied \in [Queues -> [EventIds -> Nat]]
  BY IInvParts DEF TypeOK, Consumer!TypeOK
<1>2. applied' = [applied EXCEPT ![q] = [applied[q] EXCEPT ![e] = applied[q][e] + 1]]
  BY DEF Consumer!Apply
<1>3. /\ \A p \in Queues \ {q} : applied'[p] = applied[p]
      /\ applied'[q] = [applied[q] EXCEPT ![e] = applied[q][e] + 1]
  BY <1>1, <1>2
<1>4. /\ \A f \in EventIds \ {e} : applied'[q][f] = applied[q][f]
      /\ applied'[q][e] = applied[q][e] + 1 /\ applied[q][e] \in Nat
  BY <1>1, <1>3
<1>5. applied'[q][e] > 0
  BY <1>4
<1>6. QED
  BY <1>3, <1>4, <1>5

\* One row is added to what a consumer has concluded.
LEMMA ConclusionGains ==
  ASSUME NEW q \in Queues, NEW f \in EventIds, NEW row, history'[q] = history[q] \union {row}
  PROVE  Concluded(q, f)' <=> Concluded(q, f) \/ (IF q = Audit THEN row.id = f ELSE row.cause = f)
BY DEF Concluded

LEMMA StepConclusions == IInv /\ ConclusionsMatchInbox /\ [Next]_vars => ConclusionsMatchInbox'
<1> SUFFICES ASSUME IInv, ConclusionsMatchInbox, [Next]_vars,
                    NEW p \in Queues, NEW f \in EventIds
             PROVE  applied'[p][f] > 0 <=> Concluded(p, f)'
  BY DEF ConclusionsMatchInbox
<1>0. /\ applied[p][f] > 0 <=> Concluded(p, f)
      /\ history \in [Producers \union {Audit} -> SUBSET Row]
      /\ p \in Producers \union {Audit}
      /\ Audit \notin Producers
      /\ f # None
  BY IInvParts, ChainAssumption DEF ConclusionsMatchInbox, TypeOK, Queues, ChainQueues
<1>1. CASE \E c \in Commands : Post(c)
  <2>1. PICK c \in Commands : Post(c)
    BY <1>1
  <2> DEFINE s == Head(posts[c])
             row == [id |-> NewId, trace |-> c, cause |-> None]
  <2>2. /\ s \in Producers
        /\ history'[s] = history[s] \union {row}
        /\ \A t \in (Producers \union {Audit}) \ {s} : history'[t] = history[t]
    <3>1. s \in Producers /\ Record(s, c, None) /\ None \in EventIds \union {None}
      BY <2>1, PostRecords
    <3>2. QED
      BY <3>1, RecordedTables
  <2>3. applied' = applied
    BY <2>1 DEF Post, consumer
  <2>4. Concluded(p, f)' <=> Concluded(p, f)
    <3>1. CASE p = s
      <4>1. history'[p] = history[p] \union {row}
        BY <1>0, <2>2, <3>1
      <4> HIDE DEF row
      <4>2. Concluded(p, f)' <=> Concluded(p, f) \/ (IF p = Audit THEN row.id = f ELSE row.cause = f)
        BY <4>1, ConclusionGains
      <4> USE DEF row
      <4>3. QED
        BY <1>0, <2>2, <3>1, <4>2
    <3>2. CASE p # s
      BY <1>0, <2>2, <3>2 DEF Concluded
    <3>3. QED
      BY <3>1, <3>2
  <2>5. QED
    BY <1>0, <2>3, <2>4
<1>2. CASE \E q \in Queues, e \in EventIds : Handle(q, e)
  <2>1. PICK q \in Queues, e \in EventIds : Handle(q, e)
    BY <1>2
  <2> DEFINE row == [id |-> NewId, trace |-> envelope[e].trace, cause |-> e]
  <2>2. /\ q \in Producers
        /\ history'[q] = history[q] \union {row}
        /\ \A t \in (Producers \union {Audit}) \ {q} : history'[t] = history[t]
    <3>1. q \in Producers /\ Record(q, envelope[e].trace, e) /\ envelope[e].trace \in Commands
      BY <2>1, HandledIsNew
    <3>2. PICK trace \in Commands : trace = envelope[e].trace
      BY <3>1
    <3>3. Record(q, trace, e) /\ e \in EventIds \union {None}
      BY <3>1, <3>2
    <3>4. /\ history'[q] = history[q] \union {[id |-> NewId, trace |-> trace, cause |-> e]}
          /\ \A t \in (Producers \union {Audit}) \ {q} : history'[t] = history[t]
      BY <3>1, <3>3, RecordedTables
    <3>5. QED
      BY <3>1, <3>2, <3>4
  <2>3. applied'[p][f] > 0 <=> applied[p][f] > 0 \/ (p = q /\ f = e)
    BY <2>1, InboxGains DEF Handle
  <2>4. Concluded(p, f)' <=> Concluded(p, f) \/ (p = q /\ f = e)
    <3>1. CASE p = q
      <4>1. history'[p] = history[p] \union {row}
        BY <1>0, <2>2, <3>1
      <4> HIDE DEF row
      <4>2. Concluded(p, f)' <=> Concluded(p, f) \/ (IF p = Audit THEN row.id = f ELSE row.cause = f)
        BY <4>1, ConclusionGains
      <4> USE DEF row
      <4>3. QED
        BY <1>0, <2>2, <3>1, <4>2
    <3>2. CASE p # q
      BY <1>0, <2>2, <3>2 DEF Concluded
    <3>3. QED
      BY <3>1, <3>2
  <2>5. QED
    BY <1>0, <2>3, <2>4
<1>3. CASE \E e \in EventIds : Store(e)
  <2>1. PICK e \in EventIds : Store(e)
    BY <1>3
  <2> DEFINE row == [id |-> e, trace |-> envelope[e].trace, cause |-> envelope[e].cause]
  <2>2. history' = [history EXCEPT ![Audit] = history[Audit] \union {row}] /\ Consumer!Apply(Audit, e)
    BY <2>1 DEF Store
  <2>3. applied'[p][f] > 0 <=> applied[p][f] > 0 \/ (p = Audit /\ f = e)
    BY <2>2, InboxGains DEF Queues
  <2>4. Concluded(p, f)' <=> Concluded(p, f) \/ (p = Audit /\ f = e)
    <3>1. CASE p = Audit
      <4>1. history'[p] = history[p] \union {row}
        BY <1>0, <2>2, <3>1
      <4> HIDE DEF row
      <4>2. Concluded(p, f)' <=> Concluded(p, f) \/ (IF p = Audit THEN row.id = f ELSE row.cause = f)
        BY <4>1, ConclusionGains
      <4> USE DEF row
      <4>3. QED
        BY <1>0, <2>2, <3>1, <4>2
    <3>2. CASE p # Audit
      BY <1>0, <2>2, <3>2 DEF Concluded
    <3>3. QED
      BY <3>1, <3>2
  <2>5. QED
    BY <1>0, <2>3, <2>4
<1>4. CASE UNCHANGED <<history, applied>>
  BY <1>0, <1>4 DEF Concluded
<1>5. QED
  BY <1>1, <1>2, <1>3, <1>4, WhoConcludes

\* An inbox row and the conclusion it stands for come together and stay: the
\* services never hold that they handled an event of which they kept nothing.
THEOREM ConclusionsMatchInboxHolds == Spec => []ConclusionsMatchInbox
<1>1. Init => ConclusionsMatchInbox
  BY ChainAssumption DEF Init, Consumer!Init, ConclusionsMatchInbox, Concluded, Queues, ChainQueues
<1>2. QED
  BY <1>1, StepConclusions, Invariant, PTL DEF Spec

\* For every row there is, and every service that consumes its events, the event is
\* still to come, has led to a row about the same command, or shows that the command
\* was interrupted.
THEOREM StopsShowHolds == Spec => []StopsShow
<1>1. IInv /\ ConclusionsMatchInbox => StopsShow
  <2> SUFFICES ASSUME IInv, ConclusionsMatchInbox, NEW s \in Producers, NEW t \in Producers,
                      Upstream[t] = s, NEW r \in history[s],
                      status[r.id] # "pending", r.id \notin waiting[t], ~Interrupted(r.trace)
               PROVE  \E next \in history[t] : next.cause = r.id /\ next.trace = r.trace
    BY DEF StopsShow
  <2>1. /\ r.id \in EventIds
        /\ envelope[r.id] # None /\ envelope[r.id].producer = s /\ envelope[r.id].trace = r.trace
    BY RowsHaveEvents
  <2>2. t \in ChainQueues /\ t \in Queues /\ t # Audit
    BY ChainAssumption DEF ChainQueues, Queues
  <2>3. status[r.id] \in {"absent", "pending", "published", "dead"} /\ status[r.id] # "absent"
        /\ applied[t][r.id] \in Nat
    BY <2>1, <2>2, IInvParts DEF TypeOK, Outbox!TypeOK, Consumer!TypeOK, EventsRouted
  <2>4. status[r.id] = "published" /\ applied[t][r.id] > 0
    BY <2>1, <2>2, <2>3 DEF Interrupted
  <2>5. PICK next \in history[t] : next.cause = r.id
    BY <2>1, <2>2, <2>4 DEF ConclusionsMatchInbox, Concluded
  <2>6. next.trace = r.trace
    BY <2>1, <2>5, IInvParts, ChainAssumption DEF EventsRouted
  <2>7. QED
    BY <2>5, <2>6
<1>2. QED
  BY <1>1, Invariant, ConclusionsMatchInboxHolds, PTL
=============================================================================
