----------------------------- MODULE OutboxRelay -----------------------------
(***************************************************************************)
(* One outbox table and the processes that drain it into RabbitMQ.         *)
(*                                                                         *)
(* A service inserts an event in the transaction of its business row       *)
(* (enqueue_outbox_event).  Workers run OutboxRelayWorker.relay_once in a  *)
(* loop: claim a batch under a fresh token and a lease, publish each event *)
(* in turn, and mark it published or failed while the row still carries    *)
(* their token.  Nothing stops a second worker from claiming a row whose   *)
(* lease lapsed while the first is still publishing it.  A process leaves  *)
(* its loop on any error and is started again by its container.  The       *)
(* repositories' flush_outbox is the same loop without failure marking.    *)
(***************************************************************************)
EXTENDS Naturals, FiniteSets

CONSTANTS
  Events,        \* outbox rows, numbered in the order of created_at
  Workers,       \* processes that drain the table
  Flushers,      \* the workers that run flush_outbox instead of relay_once
  Tokens,        \* claim tokens (uuid4)
  NoToken,       \* NULL in column claim_token
  NoEvent,       \* a worker that is not at any event
  BatchSize,     \* OUTBOX_RELAY_BATCH_SIZE
  MaxAttempts,   \* OUTBOX_RELAY_MAX_PUBLISH_ATTEMPTS
  PublishTries,  \* RETRY_MAX_ATTEMPTS of one publish_event call
  Unreadable,    \* rows whose payload no longer validates as EventEnvelope
  MaxStored,     \* bound: rows in the table
  MaxFaults,     \* bound: crashes, stops, slow workers, flush calls, bad rows
  MaxClaims      \* bound: claims of one row

ASSUME OutboxAssumption ==
  /\ Events \subseteq Nat
  /\ Flushers \subseteq Workers
  /\ Unreadable \subseteq Events
  /\ NoToken \notin Tokens
  /\ NoEvent \notin Events
  /\ BatchSize \in Nat \ {0}
  /\ MaxAttempts \in Nat \ {0}
  /\ PublishTries \in Nat \ {0}
  /\ MaxStored \in Nat
  /\ MaxFaults \in Nat
  /\ MaxClaims \in Nat

\* A table is drained by finitely many processes.
ASSUME WorkersFinite == IsFiniteSet(Workers)

VARIABLES
  stored,        \* rows committed to the table
  published,     \* rows with published_at set
  deadLettered,  \* rows with dead_lettered_at set
  claimToken,    \* column claim_token
  lapsed,        \* tokens whose claim_expires_at is in the past
  attempts,      \* column publish_attempts
  pc,            \* where each worker is
  batch,         \* claimed events a worker has still to reach
  current,       \* the event a worker is at
  token,         \* the claim token a worker was given
  tries,         \* failed tries of the worker's running publish call
  calls,         \* publish_event calls made for each event
  copies,        \* copies of each event the broker accepted
  faults         \* faults so far

row == <<stored, published, deadLettered, claimToken, attempts>>
worker == <<pc, batch, current, token, tries>>
broker == <<calls, copies>>
vars == <<row, lapsed, worker, broker, faults>>

PCs == {"idle", "loop", "publish", "confirmed", "failed", "down"}

TypeOK ==
  /\ stored \in SUBSET Events
  /\ published \in SUBSET Events
  /\ deadLettered \in SUBSET Events
  /\ claimToken \in [Events -> Tokens \union {NoToken}]
  /\ lapsed \in SUBSET Tokens
  /\ attempts \in [Events -> Nat]
  /\ pc \in [Workers -> PCs]
  /\ batch \in [Workers -> SUBSET Events]
  /\ current \in [Workers -> Events \union {NoEvent}]
  /\ token \in [Workers -> Tokens \union {NoToken}]
  /\ tries \in [Workers -> Nat]
  /\ calls \in [Events -> Nat]
  /\ copies \in [Events -> Nat]
  /\ faults \in Nat

Init ==
  /\ stored = {}
  /\ published = {}
  /\ deadLettered = {}
  /\ claimToken = [e \in Events |-> NoToken]
  /\ lapsed = {}
  /\ attempts = [e \in Events |-> 0]
  /\ pc = [w \in Workers |-> "idle"]
  /\ batch = [w \in Workers |-> {}]
  /\ current = [w \in Workers |-> NoEvent]
  /\ token = [w \in Workers |-> NoToken]
  /\ tries = [w \in Workers |-> 0]
  /\ calls = [e \in Events |-> 0]
  /\ copies = [e \in Events |-> 0]
  /\ faults = 0

-----------------------------------------------------------------------------
Settled == published \union deadLettered

\* The rows the claim query selects from.
ClaimableIgnoringLeases == stored \ Settled
ClaimableOnce == {e \in stored \ Settled : claimToken[e] = NoToken}
ClaimableIgnoringDeadLetters ==
  {e \in stored \ published : claimToken[e] \in lapsed \union {NoToken}}
Claimable ==
  {e \in stored \ Settled : claimToken[e] \in lapsed \union {NoToken}}

\* ORDER BY created_at ASC LIMIT n
Oldest(S, n) == {e \in S : Cardinality({d \in S : d < e}) < n}

\* uuid4: which value it is does not matter, only that nobody holds it.
UsedTokens ==
  {claimToken[e] : e \in Events} \union {token[w] : w \in Workers}
FreshTokens == Tokens \ UsedTokens
FreshToken == CHOOSE t \in FreshTokens : TRUE

\* WHERE event_id = $1 AND claim_token = $2 AND published_at IS NULL
HoldsClaim(w) == claimToken[current[w]] = token[w] /\ current[w] \notin published

\* One more fault of the environment.
Fault ==
  /\ faults < MaxFaults
  /\ faults' = faults + 1

-----------------------------------------------------------------------------
\* enqueue_outbox_event, at the commit of the business transaction.  A second
\* insert of the same event_id changes nothing (ON CONFLICT DO NOTHING).  A row
\* that the contract of the relay will not accept counts as a fault.
Enqueue(e) ==
  /\ e \notin stored
  /\ Cardinality(stored) < MaxStored
  /\ stored' = stored \union {e}
  /\ IF e \in Unreadable THEN Fault ELSE UNCHANGED faults
  /\ UNCHANGED <<published, deadLettered, claimToken, attempts, lapsed,
                 worker, broker>>

\* publish_attempts = publish_attempts + 1
CountedUnlessReclaimed(got) ==
  [e \in Events |->
    IF e \in got /\ claimToken[e] = NoToken THEN attempts[e] + 1 ELSE attempts[e]]
Counted(got) ==
  [e \in Events |-> IF e \in got THEN attempts[e] + 1 ELSE attempts[e]]

\* The claim statement: one atomic UPDATE that also counts the attempt.
ClaimRows(got, t) ==
  /\ FreshTokens # {}
  /\ got # {}
  /\ \A e \in got : attempts[e] < MaxClaims
  /\ claimToken' = [e \in Events |-> IF e \in got THEN t ELSE claimToken[e]]
  /\ attempts' = Counted(got)
  /\ lapsed' = lapsed \ {t}
  /\ UNCHANGED <<stored, published, deadLettered, broker>>

\* A flush is an outside call and counts as a fault; the relay polls for ever.
StartsCycle(w) ==
  /\ pc[w] = "idle"
  /\ IF w \in Flushers THEN Fault ELSE UNCHANGED faults

\* fetch_pending_outbox_events returns the claimed batch.
Claim(w) ==
  LET got == Oldest(Claimable, BatchSize) IN
  /\ StartsCycle(w)
  /\ got \intersect Unreadable = {}
  /\ ClaimRows(got, FreshToken)
  /\ batch' = [batch EXCEPT ![w] = got]
  /\ token' = [token EXCEPT ![w] = FreshToken]
  /\ pc' = [pc EXCEPT ![w] = "loop"]
  /\ UNCHANGED <<current, tries>>

\* A payload fails validation after the claim has committed: the call raises,
\* the rows stay claimed and the process exits.
ClaimUnreadable(w) ==
  LET got == Oldest(Claimable, BatchSize) IN
  /\ StartsCycle(w)
  /\ got \intersect Unreadable # {}
  /\ ClaimRows(got, FreshToken)
  /\ pc' = [pc EXCEPT ![w] = "down"]
  /\ UNCHANGED <<batch, current, token, tries>>

\* The next turn of the loop.  UPDATE ... RETURNING keeps no order, so the
\* batch comes in any.
BeginPublish(w) ==
  /\ pc[w] = "loop"
  /\ \E e \in batch[w] :
       /\ current' = [current EXCEPT ![w] = e]
       /\ batch' = [batch EXCEPT ![w] = @ \ {e}]
       /\ calls' = [calls EXCEPT ![e] = @ + 1]
  /\ tries' = [tries EXCEPT ![w] = 0]
  /\ pc' = [pc EXCEPT ![w] = "publish"]
  /\ UNCHANGED <<token, row, lapsed, copies, faults>>

\* The broker accepts the message and its confirmation arrives in time.
PublishConfirmed(w) ==
  /\ pc[w] = "publish"
  /\ copies' = [copies EXCEPT ![current[w]] = @ + 1]
  /\ pc' = [pc EXCEPT ![w] = "confirmed"]
  /\ UNCHANGED <<batch, current, token, tries, row, lapsed, calls, faults>>

\* with_retries: the next try, or the error of the last one.
AfterTrySwallowed(w) == IF tries[w] + 1 < PublishTries THEN "publish" ELSE "confirmed"
AfterTryOneMore(w) == IF tries[w] + 1 <= PublishTries THEN "publish" ELSE "failed"
AfterTry(w) == IF tries[w] + 1 < PublishTries THEN "publish" ELSE "failed"

\* A try of the publish call times out or fails.  The broker may have taken
\* the message nevertheless.  Another try follows until they are used up.
PublishTryFails(w) ==
  /\ pc[w] = "publish"
  /\ \E taken \in {0, 1} : copies' = [copies EXCEPT ![current[w]] = @ + taken]
  /\ tries' = [tries EXCEPT ![w] = @ + 1]
  /\ pc' = [pc EXCEPT ![w] = AfterTry(w)]
  /\ UNCHANGED <<batch, current, token, row, lapsed, calls, faults>>

\* Circuit open or bulkhead full: refused before the first try, not retried.
PublishRefused(w) ==
  /\ pc[w] = "publish"
  /\ tries[w] = 0
  /\ pc' = [pc EXCEPT ![w] = "failed"]
  /\ UNCHANGED <<batch, current, token, tries, row, lapsed, broker, faults>>

\* The worker forgets its batch: the coroutine returned or raised.
Leave(w, where) ==
  /\ pc' = [pc EXCEPT ![w] = where]
  /\ batch' = [batch EXCEPT ![w] = {}]
  /\ current' = [current EXCEPT ![w] = NoEvent]
  /\ token' = [token EXCEPT ![w] = NoToken]
  /\ tries' = [tries EXCEPT ![w] = 0]

\* mark_outbox_event_published changes one row; on to the next event, or the
\* end of the cycle.
MarkPublished(w) ==
  /\ pc[w] = "confirmed"
  /\ HoldsClaim(w)
  /\ published' = published \union {current[w]}
  /\ claimToken' = [claimToken EXCEPT ![current[w]] = NoToken]
  /\ IF batch[w] = {}
       THEN Leave(w, "idle")
       ELSE /\ pc' = [pc EXCEPT ![w] = "loop"]
            /\ current' = [current EXCEPT ![w] = NoEvent]
            /\ UNCHANGED <<batch, token, tries>>
  /\ UNCHANGED <<stored, deadLettered, attempts, lapsed, broker, faults>>

\* mark_outbox_event_failed: the row is released, and dead-lettered when its
\* attempts are used up.  relay_once raises and the process exits with the
\* rest of the batch still claimed.
MarkFailed(w) ==
  /\ pc[w] = "failed"
  /\ w \notin Flushers
  /\ HoldsClaim(w)
  /\ deadLettered' = deadLettered \union
                       {e \in {current[w]} : attempts[e] >= MaxAttempts}
  /\ claimToken' = [claimToken EXCEPT ![current[w]] = NoToken]
  /\ Leave(w, "down")
  /\ UNCHANGED <<stored, published, attempts, lapsed, broker, faults>>

\* OUTBOX_CLAIM_LOST: no row carries the token any more; the process exits.
ClaimLost(w) ==
  /\ \/ pc[w] = "confirmed"
     \/ pc[w] = "failed" /\ w \notin Flushers
  /\ ~HoldsClaim(w)
  /\ Leave(w, "down")
  /\ UNCHANGED <<row, lapsed, broker, faults>>

\* flush_outbox has no except clause: a failed publish leaves the row claimed.
FlushAborts(w) ==
  /\ pc[w] = "failed"
  /\ w \in Flushers
  /\ Leave(w, "down")
  /\ UNCHANGED <<row, lapsed, broker, faults>>

\* A crash, a lost database connection or a cancelled call, anywhere.
Crash(w) ==
  /\ pc[w] # "down"
  /\ Fault
  /\ Leave(w, "down")
  /\ UNCHANGED <<row, lapsed, broker>>

\* The container starts the process again; a new call in a flusher's case.
Restart(w) ==
  /\ pc[w] = "down"
  /\ pc' = [pc EXCEPT ![w] = "idle"]
  /\ UNCHANGED <<batch, current, token, tries, row, lapsed, broker, faults>>

Held(t) == \E w \in Workers : token[w] = t
OnRow(t) == \E e \in Events : claimToken[e] = t

\* claim_expires_at passes for rows whose worker is gone ...
LeaseLapses(t) ==
  /\ OnRow(t) /\ ~Held(t)
  /\ t \notin lapsed
  /\ lapsed' = lapsed \union {t}
  /\ UNCHANGED <<row, worker, broker, faults>>

\* ... or under a worker that takes longer than the lease to publish them.
LeaseOverrun(t) ==
  /\ OnRow(t) /\ Held(t)
  /\ t \notin lapsed
  /\ Fault
  /\ lapsed' = lapsed \union {t}
  /\ UNCHANGED <<row, worker, broker>>

-----------------------------------------------------------------------------
\* A worker's own steps: relay_once begins, and goes on.
Start(w) == Claim(w) \/ ClaimUnreadable(w)
Continue(w) ==
  \/ BeginPublish(w)
  \/ PublishConfirmed(w) \/ PublishTryFails(w) \/ PublishRefused(w)
  \/ MarkPublished(w) \/ MarkFailed(w) \/ ClaimLost(w) \/ FlushAborts(w)
  \/ Restart(w)

Next ==
  \/ \E e \in Events : Enqueue(e)
  \/ \E w \in Workers : Start(w) \/ Continue(w) \/ Crash(w)
  \/ \E t \in Tokens : LeaseLapses(t) \/ LeaseOverrun(t)

Spec == Init /\ [][Next]_vars

\* A running coroutine goes on (every await in it has a timeout), a relay polls
\* again and its container restarts it, and time passes.  Nobody has to flush.
Fairness ==
  /\ \A w \in Workers : WF_vars(Continue(w))
  /\ \A w \in Workers \ Flushers : WF_vars(Start(w))
  /\ \A t \in Tokens : WF_vars(LeaseLapses(t))

FairSpec == Spec /\ Fairness

-----------------------------------------------------------------------------
(* Properties *)

\* An event is never both published and dead-lettered, and neither kind of row
\* keeps a claim: mark_*_failed and mark_*_published of workers that share a row
\* cannot both take effect.
SettledOnce ==
  /\ published \intersect deadLettered = {}
  /\ \A e \in Settled : claimToken[e] = NoToken

\* A row is marked published only when the broker holds a copy, whichever worker
\* published it and whichever marked it.
PublishedReachedBroker == \A e \in published : copies[e] > 0

\* Two workers never carry the same claim token, so that the WHERE clause of the
\* mark statements tells them apart.
TokensTellWorkersApart ==
  \A v, w \in Workers : v # w /\ token[v] # NoToken => token[v] # token[w]

\* The rows a worker has before it, the one it is publishing included.
AtWork(w) == batch[w] \union ({current[w]} \ {NoEvent})

\* As long as a worker's lease has not lapsed the rows of its batch are its own:
\* whatever the other workers do, its mark statements will find them.
LeaseProtectsBatch ==
  \A w \in Workers : \A e \in AtWork(w) :
    token[w] \in lapsed \/ (claimToken[e] = token[w] /\ e \notin Settled)

\* Two workers are at the same event only when a lease was overrun.
SharedOnlyAfterLapse ==
  \A v, w \in Workers :
    v # w /\ AtWork(v) \intersect AtWork(w) # {} => {token[v], token[w]} \intersect lapsed # {}

\* Each claim of a row leads to at most one publish call for it, those that
\* workers have still to make included.
CallsWithinClaims ==
  \A e \in Events : calls[e] + Cardinality({w \in Workers : e \in batch[w]}) <= attempts[e]

\* The broker never receives more copies of an event than its publish calls
\* have tries: the duplicates a consumer must expect are bounded.
CopiesBounded == \A e \in Events : copies[e] <= PublishTries * calls[e]

\* Once a row is settled nothing about it changes again: no late mark, claim or
\* failure of a worker that lost its claim reaches it.
SettledRowsKept ==
  \A e \in Settled :
    /\ e \in published <=> e \in published'
    /\ e \in deadLettered <=> e \in deadLettered'
    /\ claimToken'[e] = claimToken[e]
    /\ attempts'[e] = attempts[e]
SettledIsFinal == [][SettledRowsKept]_vars

\* A worker's locals agree with its place in the code, and it can mark an event
\* published only when the broker took a copy.
LocalState ==
  \A w \in Workers :
    /\ pc[w] \in {"publish", "confirmed", "failed"} <=> current[w] \in Events
    /\ pc[w] \in {"idle", "down"} <=> token[w] = NoToken
    /\ pc[w] \in {"idle", "down"} => batch[w] = {}
    /\ current[w] \notin batch[w]
    /\ current[w] \in Events => calls[current[w]] > 0
    /\ pc[w] = "confirmed" => copies[current[w]] > 0

\* Only stored rows are settled, worked on or called for.
OnlyStored ==
  /\ Settled \subseteq stored
  /\ \A w \in Workers : AtWork(w) \subseteq stored

\* A row is dead-lettered only after a publish call of its own.
DeadLetteredCalled == \A e \in deadLettered : calls[e] > 0

\* The inductive invariant: a lease, a token and a worker's place together say
\* which of the workers that share a row may still settle it.  Every safety
\* property of rows and workers above follows from it, whatever the interleaving.
IInv ==
  /\ TypeOK
  /\ LocalState
  /\ OnlyStored
  /\ SettledOnce
  /\ PublishedReachedBroker
  /\ DeadLetteredCalled
  /\ TokensTellWorkersApart
  /\ LeaseProtectsBatch

\* The outbox as the services see it.
OutboxStatus ==
  [e \in Events |-> IF e \in published THEN "published"
                    ELSE IF e \in deadLettered THEN "dead"
                    ELSE IF e \in stored THEN "pending"
                    ELSE "absent"]
EventsTried == {e \in Events : calls[e] > 0}
Outbox == INSTANCE AtLeastOnceOutbox WITH status <- OutboxStatus, tried <- EventsTried

\* The table with its workers is an at-least-once outbox.
ImplementsOutbox == Outbox!Spec

\* In the end every committed row is settled, whatever finitely many crashes,
\* slow workers and flush calls do and however often the broker fails: a row
\* that a failure or a dead worker leaves behind is claimed again until it is
\* published or its attempts are used up.  A row that cannot be read is excepted
\* with the table it is in, since it stops whoever claims it.
NothingForgotten ==
  <>[](stored \subseteq Settled \/ stored \intersect Unreadable # {})
=============================================================================
