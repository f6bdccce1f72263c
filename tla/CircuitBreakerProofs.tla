------------------------- MODULE CircuitBreakerProofs -------------------------
(***************************************************************************)
(* The safety properties of CircuitBreaker for any number of calls and any *)
(* thresholds.  The invariant IInv is inductive; the facts about its       *)
(* counters come from the cardinality of finite sets.                      *)
(***************************************************************************)
EXTENDS CircuitBreaker, FiniteSetTheorems, TLAPS

\* The calls in the bulkhead, and the probes among them, are finitely many.
LEMMA RunningFinite ==
  ASSUME TypeOK
  PROVE  /\ IsFiniteSet(running) /\ Cardinality(running) \in Nat
         /\ IsFiniteSet(probes) /\ Cardinality(probes) \in Nat
<1>1. running \subseteq Calls /\ probes \subseteq Calls  BY DEF TypeOK
<1>2. IsFiniteSet(running) /\ IsFiniteSet(probes)
  BY <1>1, BreakerAssumption, FS_Subset
<1>3. QED  BY <1>2, FS_CardinalityType

\* No probes are within any count of successes.
LEMMA EmptyWithin ==
  ASSUME NEW S, NEW n \in Nat, Cardinality(S) = 0
  PROVE  Cardinality(S) <= n /\ Cardinality(S) <= n + 1
OBVIOUS

\* The inductive invariant holds of a new edge.
LEMMA InitIInv == Init => IInv
<1>1. SUFFICES ASSUME Init PROVE IInv  OBVIOUS
<1>2. Cardinality({}) = 0  BY FS_EmptySet
<1>3. TypeOK
  <2>1. inFlight \in 0..MaxConcurrency  BY <1>1, BreakerAssumption DEF Init
  <2>2. waited \in BOOLEAN /\ trial \in BOOLEAN /\ healed \in BOOLEAN  BY <1>1 DEF Init
  <2>3. QED  BY <1>1, <2>1, <2>2 DEF Init, TypeOK
<1>4. TrialWillEnd /\ CountersBelowThresholds
  BY <1>1, BreakerAssumption DEF Init, TrialWillEnd, CountersBelowThresholds
<1>5. BulkheadCounts /\ ProbesHadTrials
  BY <1>1, <1>2 DEF Init, BulkheadCounts, ProbesHadTrials
<1>6. QED  BY <1>1, <1>3, <1>4, <1>5 DEF Init, IInv

\* A call that the bulkhead lets in keeps it: at most the new trial is a probe more.
LEMMA EnterKeeps ==
  ASSUME IInv, NEW c \in Calls, Enter(c)
  PROVE  IInv'
<1>0. /\ TypeOK /\ TrialWillEnd /\ CountersBelowThresholds /\ BulkheadCounts
      /\ ProbesHadTrials
      /\ probes # {} => state = "half_open"
  BY DEF IInv
<1>1. /\ IsFiniteSet(running) /\ Cardinality(running) \in Nat
      /\ IsFiniteSet(probes) /\ Cardinality(probes) \in Nat
  BY <1>0, RunningFinite
<1>2. Cardinality(running') = Cardinality(running) + 1
  BY <1>1, FS_AddElement DEF Enter
<1>3. probes' # {} => state' = "half_open"
  BY <1>0 DEF Enter, Pass, Available
<1>4. TypeOK'
  <2>1. state' \in {"closed", "open", "half_open"} /\ failures' \in Nat /\ successes' \in Nat
        /\ waited' \in BOOLEAN /\ trial' \in BOOLEAN
    BY <1>0 DEF TypeOK, Enter, Pass
  <2>2. inFlight' \in 0..MaxConcurrency
    BY <1>0, BreakerAssumption DEF TypeOK, Enter
  <2>3. running' \in SUBSET Calls /\ probes' \in SUBSET running' /\ sound' \in SUBSET running'
        /\ healed' \in BOOLEAN
    BY <1>0 DEF TypeOK, Enter
  <2>4. QED  BY <2>1, <2>2, <2>3 DEF TypeOK
<1>5. TrialWillEnd'
  BY <1>0 DEF TypeOK, TrialWillEnd, Enter, Pass, Available
<1>6. CountersBelowThresholds'
  BY <1>0, BreakerAssumption DEF TypeOK, CountersBelowThresholds, Enter, Pass, Available
<1>7. BulkheadCounts'
  BY <1>0, <1>2 DEF BulkheadCounts, Enter
<1>8. ProbesHadTrials'
  <2>1. CASE state = "closed"
    <3>1. probes' = {}  BY <1>0, <2>1 DEF Enter, Pass
    <3>2. successes' \in Nat  BY <1>4 DEF TypeOK
    <3>3. QED  BY <3>1, <3>2, FS_EmptySet DEF ProbesHadTrials
  <2>2. CASE state # "closed"
    <3>1. state' = "half_open" /\ trial' = TRUE /\ ~trial
      BY <1>0, <2>2 DEF Enter, Pass, Available, TypeOK, TrialWillEnd
    <3>2. probes' = probes \union {c}  BY <3>1 DEF Enter
    <3>3. /\ Cardinality(probes') \in Nat
          /\ Cardinality(probes') <= Cardinality(probes) + 1
      <4>1. /\ IsFiniteSet(probes')
            /\ Cardinality(probes') = IF c \in probes THEN Cardinality(probes)
                                                     ELSE Cardinality(probes) + 1
        BY <1>1, <3>2, FS_AddElement
      <4>2. QED  BY <1>1, <4>1
    <3>4. successes \in Nat /\ successes' \in Nat  BY <1>0, <1>4 DEF TypeOK
    <3>5. Cardinality(probes) <= successes'
      <4>1. CASE state = "open"
        <5>1. Cardinality(probes) = 0  BY <1>0, <4>1, FS_EmptySet
        <5>2. QED  BY <5>1, <3>4
      <4>2. CASE state = "half_open"
        <5>1. successes' = successes  BY <4>2 DEF Enter, Pass
        <5>2. QED  BY <1>0, <3>1, <5>1 DEF ProbesHadTrials
      <4>3. QED  BY <1>0, <2>2, <4>1, <4>2 DEF TypeOK
    <3>6. Cardinality(probes') <= successes' + 1  BY <1>1, <3>3, <3>4, <3>5
    <3>7. QED  BY <3>1, <3>6 DEF ProbesHadTrials
  <2>3. QED  BY <2>1, <2>2
<1>9. QED  BY <1>3, <1>4, <1>5, <1>6, <1>7, <1>8 DEF IInv

\* A call that the bulkhead refuses keeps it: the trial it may have become is
\* ended by one of the calls that fill the bulkhead.
LEMMA RefusalKeeps ==
  ASSUME IInv, NEW c \in Calls, BulkheadRejects(c)
  PROVE  IInv'
<1>0. /\ TypeOK /\ TrialWillEnd /\ CountersBelowThresholds /\ BulkheadCounts
      /\ ProbesHadTrials
      /\ probes # {} => state = "half_open"
  BY DEF IInv
<1>1. /\ Cardinality(running) \in Nat
      /\ IsFiniteSet(probes) /\ Cardinality(probes) \in Nat
  BY <1>0, RunningFinite
<1>2. UNCHANGED <<inFlight, running, probes, sound, healed>>
  BY DEF BulkheadRejects, calls
<1>3. running # {}
  <2>1. Cardinality(running) > 0
    BY <1>0, <1>1, BreakerAssumption DEF BulkheadRejects, BulkheadCounts, TypeOK
  <2>2. QED  BY <2>1, FS_EmptySet
<1>4. TypeOK'
  BY <1>0, <1>2 DEF TypeOK, BulkheadRejects, Pass
<1>5. TrialWillEnd'
  BY <1>0, <1>2, <1>3 DEF TypeOK, TrialWillEnd, BulkheadRejects, Pass, Available
<1>6. CountersBelowThresholds'
  BY <1>0, BreakerAssumption DEF TypeOK, CountersBelowThresholds, BulkheadRejects, Pass, Available
<1>7. BulkheadCounts'
  BY <1>0, <1>2 DEF BulkheadCounts
<1>8. probes' # {} => state' = "half_open"
  BY <1>0, <1>2 DEF BulkheadRejects, Pass
<1>9. ProbesHadTrials'
  <2>1. successes \in Nat /\ successes' \in Nat  BY <1>0, <1>4 DEF TypeOK
  <2>2. CASE state = "half_open"
    <3>1. ~trial /\ trial'  BY <2>2 DEF BulkheadRejects, Pass, Available
    <3>2. successes' = successes  BY <2>2 DEF BulkheadRejects, Pass
    <3>3. Cardinality(probes) <= successes + 1  BY <1>0 DEF ProbesHadTrials
    <3>4. QED  BY <1>2, <3>1, <3>2, <3>3 DEF ProbesHadTrials
  <2>3. CASE state # "half_open"
    <3>1. Cardinality(probes') = 0  BY <1>0, <2>3, <1>2, FS_EmptySet
    <3>2. /\ Cardinality(probes') <= successes'
          /\ Cardinality(probes') <= successes' + 1
      BY <2>1, <3>1, EmptyWithin
    <3>3. QED  BY <3>2 DEF ProbesHadTrials
  <2>4. QED  BY <2>2, <2>3
<1>10. QED  BY <1>4, <1>5, <1>6, <1>7, <1>8, <1>9 DEF IInv

\* A call that leaves the bulkhead: the counts that both outcomes share.
LEMMA ExitCounts ==
  ASSUME IInv, NEW c \in Calls, Exit(c)
  PROVE  /\ inFlight' \in 0..MaxConcurrency
         /\ BulkheadCounts'
         /\ Cardinality(probes') \in Nat
         /\ Cardinality(probes') <= Cardinality(probes)
         /\ probes' # {} => state' = "half_open"
         /\ state' # "half_open" => Cardinality(probes') = 0
<1>0. /\ TypeOK /\ TrialWillEnd /\ CountersBelowThresholds /\ BulkheadCounts
      /\ ProbesHadTrials
      /\ probes # {} => state = "half_open"
  BY DEF IInv
<1>1. /\ IsFiniteSet(running) /\ Cardinality(running) \in Nat
      /\ IsFiniteSet(probes) /\ Cardinality(probes) \in Nat
  BY <1>0, RunningFinite
<1>2. Cardinality(running') = Cardinality(running) - 1
  BY <1>1, FS_RemoveElement DEF Exit
<1>3. Cardinality(running') \in Nat
  BY <1>1, FS_RemoveElement, FS_CardinalityType DEF Exit
<1>4. inFlight' \in 0..MaxConcurrency /\ BulkheadCounts'
  BY <1>0, <1>1, <1>2, <1>3, BreakerAssumption DEF BulkheadCounts, TypeOK, Exit
<1>5. Cardinality({}) = 0  BY FS_EmptySet
<1>6. /\ Cardinality(probes \ {c}) \in Nat
      /\ Cardinality(probes \ {c}) <= Cardinality(probes)
  BY <1>1, FS_Subset, FS_CardinalityType
<1>7. probes' = probes \ {c} \/ probes' = {}  BY DEF Exit
<1>8. probes' # {} => state' = "half_open"  BY DEF Exit
<1>9. state' # "half_open" => Cardinality(probes') = 0  BY <1>5 DEF Exit
<1>10. QED  BY <1>1, <1>4, <1>5, <1>6, <1>7, <1>8, <1>9 DEF IInv

\* A success keeps it: what it takes from the trial it adds to the successes.
LEMMA SucceedKeeps ==
  ASSUME IInv, NEW c \in Calls, Succeed(c)
  PROVE  IInv'
<1>0. /\ TypeOK /\ TrialWillEnd /\ CountersBelowThresholds /\ BulkheadCounts
      /\ ProbesHadTrials
      /\ probes # {} => state = "half_open"
  BY DEF IInv
<1>1. Exit(c) /\ RecordSuccess /\ UNCHANGED healed  BY DEF Succeed
<1>2. /\ inFlight' \in 0..MaxConcurrency
      /\ BulkheadCounts'
      /\ Cardinality(probes') \in Nat
      /\ Cardinality(probes') <= Cardinality(probes)
      /\ probes' # {} => state' = "half_open"
      /\ state' # "half_open" => Cardinality(probes') = 0
  BY <1>1, ExitCounts
<1>3. Cardinality(probes) \in Nat  BY <1>0, RunningFinite
<1>4. TypeOK'
  <2>1. state' \in {"closed", "open", "half_open"} /\ failures' \in Nat /\ successes' \in Nat
        /\ waited' \in BOOLEAN /\ trial' \in BOOLEAN
    BY <1>0, <1>1 DEF TypeOK, RecordSuccess
  <2>2. running' \in SUBSET Calls /\ probes' \in SUBSET running' /\ sound' \in SUBSET running'
        /\ healed' \in BOOLEAN
    BY <1>0, <1>1 DEF TypeOK, Exit
  <2>3. QED  BY <1>2, <2>1, <2>2 DEF TypeOK
<1>5. TrialWillEnd'
  BY <1>0, <1>1 DEF TrialWillEnd, RecordSuccess
<1>6. CountersBelowThresholds'
  BY <1>0, <1>1, BreakerAssumption DEF TypeOK, CountersBelowThresholds, RecordSuccess
<1>7. ProbesHadTrials'
  <2>1. successes \in Nat /\ successes' \in Nat  BY <1>0, <1>4 DEF TypeOK
  <2>2. CASE state' = "half_open"
    <3>1. successes' = successes + 1  BY <2>2, <1>1 DEF RecordSuccess
    <3>2. Cardinality(probes') <= successes'
      <4>1. Cardinality(probes) <= successes + 1  BY <1>0 DEF ProbesHadTrials
      <4>2. QED  BY <1>2, <1>3, <2>1, <3>1, <4>1
    <3>3. Cardinality(probes') <= successes' + 1  BY <1>2, <2>1, <3>2
    <3>4. QED  BY <3>2, <3>3 DEF ProbesHadTrials
  <2>3. CASE state' # "half_open"
    <3>1. /\ Cardinality(probes') <= successes'
          /\ Cardinality(probes') <= successes' + 1
      BY <2>3, <1>2, <2>1, EmptyWithin
    <3>2. QED  BY <3>1 DEF ProbesHadTrials
  <2>4. QED  BY <2>2, <2>3
<1>8. QED  BY <1>2, <1>4, <1>5, <1>6, <1>7 DEF IInv

\* A failure keeps it: in the half-open phase it ends the phase.
LEMMA FailKeeps ==
  ASSUME IInv, NEW c \in Calls, Fail(c)
  PROVE  IInv'
<1>0. /\ TypeOK /\ TrialWillEnd /\ CountersBelowThresholds /\ BulkheadCounts
      /\ ProbesHadTrials
      /\ probes # {} => state = "half_open"
  BY DEF IInv
<1>1. Exit(c) /\ RecordFailure /\ UNCHANGED healed  BY DEF Fail
<1>2. /\ inFlight' \in 0..MaxConcurrency
      /\ BulkheadCounts'
      /\ Cardinality(probes') \in Nat
      /\ probes' # {} => state' = "half_open"
      /\ state' # "half_open" => Cardinality(probes') = 0
  BY <1>1, ExitCounts
<1>3. state' # "half_open"
  BY <1>1 DEF RecordFailure, Trip
<1>4. TypeOK'
  <2>1. state' \in {"closed", "open", "half_open"} /\ failures' \in Nat /\ successes' \in Nat
    BY <1>0, <1>1 DEF TypeOK, RecordFailure, Trip
  <2>2. waited' \in BOOLEAN /\ trial' \in BOOLEAN
    BY <1>0, <1>1, Zenon DEF TypeOK, RecordFailure, Trip
  <2>3. running' \in SUBSET Calls /\ probes' \in SUBSET running' /\ sound' \in SUBSET running'
        /\ healed' \in BOOLEAN
    BY <1>0, <1>1 DEF TypeOK, Exit
  <2>4. QED  BY <1>2, <2>1, <2>2, <2>3 DEF TypeOK
<1>5. TrialWillEnd'
  BY <1>0, <1>1 DEF TrialWillEnd, RecordFailure
<1>6. CountersBelowThresholds'
  BY <1>0, <1>1, <1>3, BreakerAssumption DEF TypeOK, CountersBelowThresholds, RecordFailure, Trip
<1>7. ProbesHadTrials'
  <2>1. successes' \in Nat  BY <1>4 DEF TypeOK
  <2>2. /\ Cardinality(probes') <= successes'
        /\ Cardinality(probes') <= successes' + 1
    BY <1>2, <1>3, <2>1, EmptyWithin
  <2>3. QED  BY <2>2 DEF ProbesHadTrials
<1>8. QED  BY <1>2, <1>4, <1>5, <1>6, <1>7 DEF IInv

\* Every step of the edge keeps it.
LEMMA NextIInv == IInv /\ [Next]_vars => IInv'
<1> SUFFICES ASSUME IInv, [Next]_vars PROVE IInv'  OBVIOUS
<1>1. ASSUME NEW c \in Calls, Enter(c) PROVE IInv'  BY <1>1, EnterKeeps
<1>2. ASSUME NEW c \in Calls, BulkheadRejects(c) PROVE IInv'  BY <1>2, RefusalKeeps
<1>3. ASSUME NEW c \in Calls, Succeed(c) PROVE IInv'  BY <1>3, SucceedKeeps
<1>4. ASSUME NEW c \in Calls, Fail(c) PROVE IInv'  BY <1>4, FailKeeps
<1>5. CASE RecoveryTimeout
  BY <1>5 DEF RecoveryTimeout, calls, IInv, TypeOK, TrialWillEnd, CountersBelowThresholds,
              BulkheadCounts, ProbesHadTrials
<1>6. CASE Heal
  BY <1>6 DEF Heal, circuit, calls, IInv, TypeOK, TrialWillEnd, CountersBelowThresholds,
              BulkheadCounts, ProbesHadTrials
<1>7. CASE UNCHANGED vars
  BY <1>7 DEF vars, circuit, calls, IInv, TypeOK, TrialWillEnd, CountersBelowThresholds,
              BulkheadCounts, ProbesHadTrials
<1>8. QED  BY <1>1, <1>2, <1>3, <1>4, <1>5, <1>6, <1>7 DEF Next

\* The inductive invariant holds throughout.
LEMMA IInvHolds == Spec => []IInv
BY InitIInv, NextIInv, PTL DEF Spec

-----------------------------------------------------------------------------

\* For any number of calls and any thresholds: a circuit that turns callers away
\* because of a trial (assert_available) has a call under way that will end it.
THEOREM TrialWillEndHolds == Spec => []TrialWillEnd
<1>1. IInv => TrialWillEnd  BY DEF IInv
<1>2. QED  BY <1>1, IInvHolds, PTL

\* For any number of calls and any thresholds: at most success_threshold probes
\* run at a time in a half-open phase, however late other calls answer.
THEOREM ProbesBoundedHolds == Spec => []ProbesBounded
<1>1. IInv => ProbesBounded
  <2>1. SUFFICES ASSUME IInv PROVE ProbesBounded  OBVIOUS
  <2>2. Cardinality(probes) \in Nat  BY <2>1, RunningFinite DEF IInv
  <2>3. CASE state = "half_open"
    BY <2>1, <2>2, <2>3, BreakerAssumption
       DEF IInv, TypeOK, ProbesHadTrials, CountersBelowThresholds, ProbesBounded
  <2>4. CASE state # "half_open"
    <3>1. Cardinality(probes) = 0  BY <2>1, <2>4, FS_EmptySet DEF IInv
    <3>2. QED  BY <2>1, <2>4, <3>1, BreakerAssumption DEF IInv, ProbesBounded
  <2>5. QED  BY <2>3, <2>4
<1>2. QED  BY <1>1, IInvHolds, PTL

\* For any number of calls and any thresholds: the counters stay below their
\* thresholds in the states that count.
THEOREM CountersHold == Spec => []CountersBelowThresholds
<1>1. IInv => CountersBelowThresholds  BY DEF IInv
<1>2. QED  BY <1>1, IInvHolds, PTL

\* For any number of calls: the bulkhead's counter is the number of calls in it.
THEOREM BulkheadCountsHolds == Spec => []BulkheadCounts
<1>1. IInv => BulkheadCounts  BY DEF IInv
<1>2. QED  BY <1>1, IInvHolds, PTL
-----------------------------------------------------------------------------
(* Why the circuit closes: the safety that the liveness of ClosesAfterHealing *)
(* rests on.                                                                  *)

\* Calls under way from before the dependency recovered.
Old == running \ sound

\* The circuit opens, or an open one waits anew.
Trips == state' = "open" /\ ~ waited' /\ (state # "open" \/ waited)

\* Once the dependency is well no step adds an old call, each trip uses one up,
\* and with none left no failure is counted and a closed circuit stays closed.
OldCallsRunOut ==
  healed =>
    /\ Old' \subseteq Old
    /\ Trips => Old' # Old
    /\ Old = {} => failures' <= failures /\ (state = "closed" => state' = "closed")

\* For any number of calls: the variables keep their types, in particular the
\* bulkhead's counter never leaves 0..max_concurrency.
THEOREM TypeCorrect == Spec => []TypeOK
<1>1. IInv => TypeOK  BY DEF IInv
<1>2. QED  BY <1>1, IInvHolds, PTL

\* For any number of calls and any thresholds: after the dependency recovered,
\* record_failure trips the circuit at most once for each call that was then
\* under way, whatever the bulkhead refuses and however late the calls end.
THEOREM OldCallsRunOutHolds == Spec => [][OldCallsRunOut]_vars
<1>1. ASSUME IInv, IInv', Next PROVE OldCallsRunOut
  <2> SUFFICES ASSUME healed
               PROVE  /\ Old' \subseteq Old
                      /\ Trips => Old' # Old
                      /\ Old = {} =>
                           failures' <= failures /\ (state = "closed" => state' = "closed")
    BY DEF OldCallsRunOut
  <2>0. TypeOK /\ failures \in Nat
    BY <1>1 DEF IInv, TypeOK
  <2>1. ASSUME NEW c \in Calls, Enter(c) \/ BulkheadRejects(c)
        PROVE  /\ Old' \subseteq Old /\ ~ Trips /\ failures' = failures
               /\ state = "closed" => state' = "closed"
    <3>1. Pass
      BY <2>1 DEF Enter, BulkheadRejects
    <3>2. Old' \subseteq Old
      BY <2>1 DEF Enter, BulkheadRejects, calls, Old
    <3>3. state' # "open" /\ failures' = failures /\ (state = "closed" => state' = "closed")
      BY <3>1 DEF Pass, Available
    <3> QED BY <3>2, <3>3 DEF Trips
  <2>2. ASSUME NEW c \in Calls, Succeed(c)
        PROVE  /\ Old' \subseteq Old /\ ~ Trips /\ failures' <= failures
               /\ state = "closed" => state' = "closed"
    <3>1. RecordSuccess /\ Exit(c)
      BY <2>2 DEF Succeed
    <3>2. Old' \subseteq Old
      BY <3>1 DEF Exit, Old
    <3>3. failures' <= failures /\ (state = "closed" => state' = "closed")
      BY <2>0, <3>1 DEF RecordSuccess
    <3>4. waited' = waited /\ (state' = "open" => state = "open")
      BY <3>1 DEF RecordSuccess
    <3> QED BY <3>2, <3>3, <3>4 DEF Trips
  <2>3. ASSUME NEW c \in Calls, Fail(c)
        PROVE  c \in Old /\ c \notin Old' /\ Old' \subseteq Old
    BY <2>3 DEF Fail, Exit, Old
  <2>4. CASE RecoveryTimeout \/ Heal
    <3>1. UNCHANGED <<state, failures, running, sound>> /\ (waited' \/ waited' = waited)
      BY <2>4 DEF RecoveryTimeout, Heal, circuit, calls
    <3>2. ~ Trips
      BY <3>1 DEF Trips
    <3> QED BY <2>0, <3>1, <3>2 DEF Old
  <2> QED BY <1>1, <2>0, <2>1, <2>2, <2>3, <2>4 DEF Next
<1>2. ASSUME IInv, IInv', [Next]_vars PROVE [OldCallsRunOut]_vars
  BY <1>1, <1>2
<1>3. QED  BY <1>2, IInvHolds, PTL DEF Spec

=============================================================================
