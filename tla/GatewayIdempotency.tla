-------------------------- MODULE GatewayIdempotency --------------------------
(***************************************************************************)
(* Requests that carry one idempotency key to POST /gateway/credit-evaluate *)
(* and the row of idempotency_keys they share.                             *)
(*                                                                         *)
(* A request reserves the key, posts the application through the feature,  *)
(* scoring and decision services, and stores the outcome while the row is  *)
(* pending.  The row is no fencing token: a request that finds the lock    *)
(* old starts over while the first may still be running, and whichever     *)
(* ends first settles the key.  Retried posts carry no key of their own.   *)
(* Answers that change nothing (a replayed error, 409 for another payload  *)
(* or a request in progress) are no steps of the model.                    *)
(***************************************************************************)
EXTENDS Naturals, FiniteSets

CONSTANTS
  Requests,    \* requests with this key, each retried by its client
  HashOf,      \* request_hash of each
  NoHash,      \* the row does not exist
  Stages,      \* services evaluate_credit posts to, one after the other
  Tries,       \* RETRY_MAX_ATTEMPTS of one post
  MaxFaults    \* bound: crashes, lost answers, slow requests, migrations

ASSUME GatewayAssumption ==
  /\ IsFiniteSet(Requests)
  /\ NoHash \notin {HashOf[r] : r \in Requests}
  /\ Stages \in Nat \ {0}
  /\ Tries \in Nat \ {0}
  /\ MaxFaults \in Nat

VARIABLES
  status,   \* column status, or "absent"
  hash,     \* column request_hash
  answer,   \* the execution whose response_payload is stored, 0 if none
  lapsed,   \* locked_at or expires_at is too long ago
  pc,       \* how far each request is
  exec,     \* the execution a request runs
  stage,    \* the service it posts to
  tries,    \* failed tries of the running post
  execs,    \* executions begun
  effects,  \* evaluations each service has committed for this key
  given,    \* executions that some client got as its 200 answer
  lapses,   \* times the lock grew old
  faults    \* faults so far

keyRow == <<status, hash, answer>>
request == <<pc, exec, stage, tries>>
vars == <<keyRow, lapsed, request, execs, effects, given, lapses, faults>>

TypeOK ==
  /\ status \in {"absent", "pending", "completed", "failed"}
  /\ hash \in {HashOf[r] : r \in Requests} \union {NoHash}
  /\ answer \in 0..execs
  /\ lapsed \in BOOLEAN
  /\ pc \in [Requests -> {"idle", "posting", "evaluated", "failing"}]
  /\ exec \in [Requests -> 0..execs]
  /\ stage \in [Requests -> 1..Stages]
  /\ tries \in [Requests -> 0..(Tries - 1)]
  /\ execs \in Nat
  /\ effects \in [1..Stages -> Nat]
  /\ given \subseteq 0..execs
  /\ lapses \in Nat
  /\ faults \in Nat

Init ==
  /\ status = "absent"
  /\ hash = NoHash
  /\ answer = 0
  /\ lapsed = FALSE
  /\ pc = [r \in Requests |-> "idle"]
  /\ exec = [r \in Requests |-> 0]
  /\ stage = [r \in Requests |-> 1]
  /\ tries = [r \in Requests |-> 0]
  /\ execs = 0
  /\ effects = [s \in 1..Stages |-> 0]
  /\ given = {}
  /\ lapses = 0
  /\ faults = 0

Fault ==
  /\ faults < MaxFaults
  /\ faults' = faults + 1

Goto(r, where) == pc' = [pc EXCEPT ![r] = where]

-----------------------------------------------------------------------------
(* reserve_request: one transaction that locks the row *)

\* The reservation is granted and the pipeline begins.
BeginExecution(r) ==
  /\ Goto(r, "posting")
  /\ exec' = [exec EXCEPT ![r] = execs + 1]
  /\ stage' = [stage EXCEPT ![r] = 1]
  /\ tries' = [tries EXCEPT ![r] = 0]
  /\ execs' = execs + 1

\* The INSERT took effect.
ReserveNew(r) ==
  /\ pc[r] = "idle"
  /\ status = "absent"
  /\ status' = "pending"
  /\ hash' = HashOf[r]
  /\ lapsed' = FALSE
  /\ BeginExecution(r)
  /\ UNCHANGED <<answer, effects, given, lapses, faults>>

\* A pending row whose lock is old is refreshed for this request.  (The disjunct
\* status = 'failed' of the UPDATE is never reached: a failed row is replayed.)
TakeOverKeepingLock(r) ==
  /\ pc[r] = "idle"
  /\ status = "pending"
  /\ hash = HashOf[r]
  /\ lapsed
  /\ BeginExecution(r)
  /\ UNCHANGED <<keyRow, lapsed, effects, given, lapses, faults>>
TakeOverFailed(r) ==
  /\ pc[r] = "idle"
  /\ status = "failed" \/ (status = "pending" /\ lapsed)
  /\ hash = HashOf[r]
  /\ status' = "pending"
  /\ lapsed' = FALSE
  /\ BeginExecution(r)
  /\ UNCHANGED <<hash, answer, effects, given, lapses, faults>>
TakeOverFailedOnly(r) ==
  /\ pc[r] = "idle"
  /\ status = "failed" /\ lapsed
  /\ hash = HashOf[r]
  /\ lapsed' = FALSE
  /\ BeginExecution(r)
  /\ UNCHANGED <<keyRow, effects, given, lapses, faults>>
TakeOver(r) ==
  /\ pc[r] = "idle"
  /\ status = "pending"
  /\ hash = HashOf[r]
  /\ lapsed
  /\ lapsed' = FALSE
  /\ BeginExecution(r)
  /\ UNCHANGED <<keyRow, effects, given, lapses, faults>>

\* A completed row answers a retry of the same payload, however old it is.
Replay(r) ==
  /\ pc[r] = "idle"
  /\ status = "completed"
  /\ hash = HashOf[r]
  /\ given' = given \union {answer}
  /\ UNCHANGED <<keyRow, lapsed, request, execs, effects, lapses, faults>>

-----------------------------------------------------------------------------
(* evaluate_credit: one post after the other, each retried *)

\* A service has committed and its answer arrives: the next service, or done.
PostAnswered(r) ==
  /\ pc[r] = "posting"
  /\ effects' = [effects EXCEPT ![stage[r]] = @ + 1]
  /\ tries' = [tries EXCEPT ![r] = 0]
  /\ IF stage[r] < Stages
       THEN stage' = [stage EXCEPT ![r] = @ + 1] /\ UNCHANGED pc
       ELSE Goto(r, "evaluated") /\ UNCHANGED stage
  /\ UNCHANGED <<keyRow, lapsed, exec, execs, given, lapses, faults>>

\* with_retries: another try while there is one; a client error has none.
TryAgain(r) == tries' = [tries EXCEPT ![r] = @ + 1] /\ UNCHANGED pc
GiveUpSwallowed(r) ==
  \/ tries[r] + 1 < Tries /\ TryAgain(r)
  \/ Goto(r, "evaluated") /\ tries' = [tries EXCEPT ![r] = 0]
GiveUp(r) ==
  \/ tries[r] + 1 < Tries /\ TryAgain(r)
  \/ Goto(r, "failing") /\ tries' = [tries EXCEPT ![r] = 0]

\* A try fails or times out.  The service may have committed nevertheless.
PostTryFails(r) ==
  /\ pc[r] = "posting"
  /\ \E done \in {0, 1} : effects' = [effects EXCEPT ![stage[r]] = @ + done]
  /\ GiveUp(r)
  /\ UNCHANGED <<keyRow, lapsed, exec, stage, execs, given, lapses, faults>>

-----------------------------------------------------------------------------
(* persist_response and persist_failure: UPDATE ... WHERE status = 'pending' *)

\* The row changes only while it is pending.
SettleUnconditionally(r, outcome) ==
  /\ status' = outcome
  /\ answer' = IF outcome = "completed" THEN exec[r] ELSE answer
Settle(r, outcome) ==
  IF status = "pending"
    THEN /\ status' = outcome
         /\ answer' = IF outcome = "completed" THEN exec[r] ELSE answer
    ELSE UNCHANGED <<status, answer>>

\* The request ends.
Leave(r) ==
  /\ Goto(r, "idle")
  /\ tries' = [tries EXCEPT ![r] = 0]
  /\ stage' = [stage EXCEPT ![r] = 1]
  /\ exec' = [exec EXCEPT ![r] = 0]

\* The evaluation is stored and returned; if the row was settled meanwhile the
\* client gets IDEMPOTENCY_PERSIST_FAILED instead.
PersistResponse(r) ==
  /\ pc[r] = "evaluated"
  /\ Settle(r, "completed")
  /\ given' = IF status = "pending" THEN given \union {exec[r]} ELSE given
  /\ Leave(r)
  /\ UNCHANGED <<hash, lapsed, execs, effects, lapses, faults>>

\* The error is stored; the client gets it or IDEMPOTENCY_PERSIST_FAILED.
PersistFailure(r) ==
  /\ pc[r] = "failing"
  /\ Settle(r, "failed")
  /\ Leave(r)
  /\ UNCHANGED <<hash, lapsed, execs, effects, given, lapses, faults>>

\* The UPDATE takes effect but the gateway never learns, or dies before answering.
PersistUnanswered(r) ==
  /\ Fault
  /\ \/ pc[r] = "evaluated" /\ Settle(r, "completed")
     \/ pc[r] = "failing" /\ Settle(r, "failed")
  /\ Leave(r)
  /\ UNCHANGED <<hash, lapsed, execs, effects, given, lapses>>

\* The gateway dies or loses the database: the row stays as it is.
Crash(r) ==
  /\ pc[r] # "idle"
  /\ Fault
  /\ Leave(r)
  /\ UNCHANGED <<keyRow, lapsed, execs, effects, given, lapses>>

-----------------------------------------------------------------------------
(* Time, and the operator *)

Executing == {r \in Requests : pc[r] # "idle"}

\* stale_after_seconds pass on a row nobody works for any more ...
LockLapses ==
  /\ status = "pending" /\ ~lapsed
  /\ Executing = {}
  /\ lapsed' = TRUE
  /\ lapses' = lapses + 1
  /\ UNCHANGED <<keyRow, request, execs, effects, given, faults>>

\* ... or while a request is still at its posts.
LockOverrun ==
  /\ status = "pending" /\ ~lapsed
  /\ Executing # {}
  /\ Fault
  /\ lapsed' = TRUE
  /\ lapses' = lapses + 1
  /\ UNCHANGED <<keyRow, request, execs, effects, given>>

\* apply_migrations runs every file again each time: 0002 derives the status anew
\* from response_payload, so a failed key is pending again and its lock as old as
\* the row.
ReapplyMigrationCompleted ==
  /\ status \in {"failed", "completed"}
  /\ Fault
  /\ status' = "pending"
  /\ lapsed' \in BOOLEAN
  /\ lapses' = IF lapsed' THEN lapses + 1 ELSE lapses
  /\ UNCHANGED <<hash, answer, request, execs, effects, given>>
ReapplyMigration ==
  /\ status = "failed"
  /\ Fault
  /\ status' = "pending"
  /\ lapsed' \in BOOLEAN
  /\ lapses' = IF lapsed' THEN lapses + 1 ELSE lapses
  /\ UNCHANGED <<hash, answer, request, execs, effects, given>>

Reserve(r) == ReserveNew(r) \/ TakeOver(r) \/ Replay(r)
Work(r) == PostAnswered(r) \/ PostTryFails(r) \/ PersistResponse(r) \/ PersistFailure(r)

Next ==
  \/ \E r \in Requests : Reserve(r) \/ Work(r) \/ PersistUnanswered(r) \/ Crash(r)
  \/ LockLapses \/ LockOverrun \/ ReapplyMigration

Spec == Init /\ [][Next]_vars

\* Clients retry, requests go on (every post is timed) and time passes.
Fairness ==
  /\ \A r \in Requests : WF_vars(Reserve(r)) /\ WF_vars(Work(r))
  /\ WF_vars(LockLapses)

FairSpec == Spec /\ Fairness

-----------------------------------------------------------------------------
(* Properties *)

\* "Replay the stored response for exact retries": whatever evaluation any client
\* got is the stored one, so that all of them got the same, although requests
\* that took the key over from each other finish in any order.
AnsweredIsStored == \A x \in given : status = "completed" /\ answer = x

\* A completed key keeps its outcome whatever late requests, expiry and migrations
\* do, and no request reopens a failed one.
SettledKeyKept ==
  /\ status = "completed" => UNCHANGED keyRow
  /\ status = "failed" => UNCHANGED keyRow \/ (status' = "pending" /\ UNCHANGED request)
SettledIsFinal == [][SettledKeyKept]_vars

\* A stored evaluation was committed by every service of the pipeline.
CompletedHadEffects == status = "completed" => \A s \in 1..Stages : effects[s] > 0

\* Only a lock that grew old lets the pipeline run again, once per lapse, and each
\* run leaves no more evaluations in a service than a post has tries.
DuplicatesBounded ==
  /\ execs <= 1 + lapses
  /\ \A s \in 1..Stages : effects[s] <= Tries * execs

\* Every reserved key is settled in the end, whatever finitely many crashes do.
KeySettles == status = "pending" ~> status \in {"completed", "failed"}

\* What a request has passed, the services have committed.
ProgressHadEffects ==
  \A r \in Requests :
    /\ pc[r] = "posting" => \A s \in 1..Stages : s < stage[r] => effects[s] > 0
    /\ pc[r] = "evaluated" => \A s \in 1..Stages : effects[s] > 0

\* Executions run only for a reserved key.
ExecutingReserved == status = "absent" => Executing = {} /\ given = {} /\ execs = 0

\* A lapse that was not used yet accounts for one more execution.
ExecutionsCounted ==
  /\ execs <= 1 + lapses
  /\ lapsed => execs <= lapses

\* The inductive invariant behind the safety properties.
IInv ==
  /\ TypeOK
  /\ AnsweredIsStored
  /\ CompletedHadEffects
  /\ ProgressHadEffects
  /\ ExecutingReserved
  /\ ExecutionsCounted
=============================================================================
