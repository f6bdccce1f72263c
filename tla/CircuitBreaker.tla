---------------------------- MODULE CircuitBreaker ----------------------------
(***************************************************************************)
(* One integration edge of a process: calls that pass a circuit breaker    *)
(* and a bulkhead before they try the broker, as                           *)
(* RabbitMQClient._run_integration_call arranges them for publishing and   *)
(* for consuming.                                                          *)
(*                                                                         *)
(* assert_available comes first and may turn the caller into the probe of  *)
(* a half-open circuit; only then may the bulkhead refuse it, which is not *)
(* recorded.  A call is recorded when it ends, in whatever state the       *)
(* circuit is by then: calls admitted before the circuit tripped answer    *)
(* into its half-open phase.  The event loop is single-threaded and the    *)
(* bulkhead's lock is never held across an await, so entering and leaving  *)
(* are atomic; the timed tries of a call lie between them.                 *)
(***************************************************************************)
EXTENDS Naturals, FiniteSets

CONSTANTS
  Calls,             \* tasks that use the edge, again and again
  FailureThreshold,  \* failures that open the circuit
  SuccessThreshold,  \* successes that close it again
  MaxConcurrency     \* calls the bulkhead lets in at a time

ASSUME BreakerAssumption ==
  /\ IsFiniteSet(Calls)
  /\ FailureThreshold \in Nat \ {0}
  /\ SuccessThreshold \in Nat \ {0}
  /\ MaxConcurrency \in Nat \ {0}

VARIABLES
  state,      \* _state
  failures,   \* _failures
  successes,  \* _successes
  waited,     \* recovery_timeout_seconds have passed since _opened_at_monotonic
  trial,      \* _half_open_trial_in_flight
  inFlight,   \* _in_flight of the bulkhead
  running,    \* calls in the bulkhead
  probes,     \* those of them admitted in the current half-open phase
  healed,     \* the dependency is well again, for good
  sound       \* running calls that began after that

circuit == <<state, failures, successes, waited, trial>>
calls == <<inFlight, running, probes, sound>>
vars == <<circuit, calls, healed>>

TypeOK ==
  /\ state \in {"closed", "open", "half_open"}
  /\ failures \in Nat
  /\ successes \in Nat
  /\ waited \in BOOLEAN
  /\ trial \in BOOLEAN
  /\ inFlight \in 0..MaxConcurrency
  /\ running \in SUBSET Calls
  /\ probes \in SUBSET running
  /\ healed \in BOOLEAN
  /\ sound \in SUBSET running

Init ==
  /\ state = "closed"
  /\ failures = 0
  /\ successes = 0
  /\ waited = FALSE
  /\ trial = FALSE
  /\ inFlight = 0
  /\ running = {}
  /\ probes = {}
  /\ healed = FALSE
  /\ sound = {}

-----------------------------------------------------------------------------
(* The circuit *)

\* assert_available lets the caller pass; otherwise it raises CIRCUIT_OPEN and
\* changes nothing.
AvailableWithoutTrial == state = "open" => waited
Available ==
  \/ state = "closed"
  \/ state = "open" /\ waited
  \/ state = "half_open" /\ ~trial

\* A caller that passes an open circuit makes it half-open, and whoever passes a
\* half-open one is its trial.
Pass ==
  /\ Available
  /\ state' = IF state = "open" THEN "half_open" ELSE state
  /\ successes' = IF state = "open" THEN 0 ELSE successes
  /\ trial' = (state' = "half_open" \/ trial)
  /\ UNCHANGED <<failures, waited>>

\* _trip_locked
Trip ==
  /\ state' = "open"
  /\ waited' = FALSE

\* record_success, in each state of the circuit.
RecordSuccessKeepingTrial ==
  /\ failures' = 0
  /\ state' = IF state = "half_open" /\ successes + 1 >= SuccessThreshold
                THEN "closed" ELSE state
  /\ successes' = IF state = "half_open" /\ state' # "closed" THEN successes + 1 ELSE 0
  /\ UNCHANGED <<trial, waited>>
RecordSuccessOneMore ==
  /\ failures' = 0
  /\ state' = IF state = "half_open" /\ successes + 1 > SuccessThreshold
                THEN "closed" ELSE state
  /\ successes' = IF state = "half_open" /\ state' # "closed" THEN successes + 1 ELSE 0
  /\ trial' = (state # "half_open" /\ trial)
  /\ UNCHANGED waited
RecordSuccess ==
  /\ failures' = 0
  /\ state' = IF state = "half_open" /\ successes + 1 >= SuccessThreshold
                THEN "closed" ELSE state
  /\ successes' = IF state = "half_open" /\ state' # "closed" THEN successes + 1 ELSE 0
  /\ trial' = (state # "half_open" /\ trial)
  /\ UNCHANGED waited

\* record_failure: a half-open circuit trips at once, any other when the count
\* reaches the threshold; one that is already open then waits anew.
RecordFailure ==
  /\ successes' = 0
  /\ trial' = FALSE
  /\ IF state = "half_open"
       THEN Trip /\ UNCHANGED failures
       ELSE /\ failures' = failures + 1
            /\ IF failures + 1 >= FailureThreshold THEN Trip ELSE UNCHANGED <<state, waited>>

-----------------------------------------------------------------------------
(* The bulkhead and the calls *)

\* A call is let in.
Enter(c) ==
  /\ c \notin running
  /\ Pass
  /\ inFlight < MaxConcurrency
  /\ inFlight' = inFlight + 1
  /\ running' = running \union {c}
  /\ probes' = IF state' = "half_open" THEN probes \union {c} ELSE probes
  /\ sound' = IF healed THEN sound \union {c} ELSE sound
  /\ UNCHANGED healed

\* BULKHEAD_REJECTED: what the circuit noted of the caller stays.
BulkheadRejects(c) ==
  /\ c \notin running
  /\ Pass
  /\ inFlight >= MaxConcurrency
  /\ UNCHANGED <<calls, healed>>

\* The finally clause of the bulkhead.
ExitUncounted(c) ==
  /\ c \in running
  /\ UNCHANGED inFlight
  /\ running' = running \ {c}
  /\ probes' = IF state' = "half_open" THEN probes \ {c} ELSE {}
  /\ sound' = sound \ {c}
Exit(c) ==
  /\ c \in running
  /\ inFlight' = inFlight - 1
  /\ running' = running \ {c}
  /\ probes' = IF state' = "half_open" THEN probes \ {c} ELSE {}
  /\ sound' = sound \ {c}

Succeed(c) ==
  /\ RecordSuccess
  /\ Exit(c)
  /\ UNCHANGED healed

\* Every try failed or timed out, or an error was not worth another try.
Fail(c) ==
  /\ c \notin sound
  /\ RecordFailure
  /\ Exit(c)
  /\ UNCHANGED healed

RecoveryTimeout ==
  /\ state = "open"
  /\ ~waited
  /\ waited' = TRUE
  /\ UNCHANGED <<state, failures, successes, trial, calls, healed>>

\* The dependency recovers; calls that are under way may still fail.
Heal ==
  /\ ~healed
  /\ healed' = TRUE
  /\ UNCHANGED <<circuit, calls>>

Next ==
  \/ \E c \in Calls : Enter(c) \/ BulkheadRejects(c) \/ Succeed(c) \/ Fail(c)
  \/ RecoveryTimeout
  \/ Heal

Spec == Init /\ [][Next]_vars

\* Calls end (their tries are timed and counted), time passes, and the process
\* keeps calling.  The dependency need not recover.
Fairness ==
  /\ WF_vars(\E c \in Calls : Enter(c))
  /\ \A c \in Calls : WF_vars(Succeed(c) \/ Fail(c))
  /\ WF_vars(RecoveryTimeout)

FairSpec == Spec /\ Fairness

-----------------------------------------------------------------------------
(* Properties *)

\* A circuit that turns callers away because of a trial has a call under way that
\* will end the trial, also when the trial itself was refused by the bulkhead:
\* the flag of _half_open_trial_in_flight never stays set for good.
TrialWillEnd == trial => state = "half_open" /\ running # {}

\* A late answer of a call from before the circuit tripped lets a second probe
\* start, but never more probes run together than successes close the circuit.
ProbesBounded ==
  /\ probes # {} => state = "half_open"
  /\ Cardinality(probes) <= SuccessThreshold

\* The counters stand below their thresholds in the states that count: no
\* success or failure of another phase carries a circuit past the threshold.
CountersBelowThresholds ==
  /\ state = "closed" => failures < FailureThreshold /\ successes = 0
  /\ state = "half_open" => successes < SuccessThreshold

\* The bulkhead counts the calls it holds, whichever way they leave.
BulkheadCounts == inFlight = Cardinality(running)

\* Every probe under way had its trial, which is running or became a success.
ProbesHadTrials ==
  /\ Cardinality(probes) <= successes + 1
  /\ ~trial => Cardinality(probes) <= successes

\* The inductive invariant: why the trial flag cannot stay set and why the
\* overlapping probes are few.
IInv ==
  /\ TypeOK
  /\ TrialWillEnd
  /\ CountersBelowThresholds
  /\ BulkheadCounts
  /\ probes # {} => state = "half_open"
  /\ ProbesHadTrials

\* Once the dependency is well the circuit closes for good, whatever late failures
\* trip it again and whichever trials the bulkhead refuses.
ClosesAfterHealing == healed ~> [](state = "closed")
=============================================================================
