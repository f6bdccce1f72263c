----------------------- MODULE GatewayIdempotencyProofs -----------------------
(***************************************************************************)
(* The safety of GatewayIdempotency for any number of requests, services   *)
(* and tries, and however often requests take the key over from each other.*)
(* The argument: a row that is not pending never changes again but for a   *)
(* migration, and only the request that settles it hands its evaluation    *)
(* out, so the executions that were given to clients are the stored one.   *)
(***************************************************************************)
EXTENDS GatewayIdempotency, FiniteSetTheorems, TLAPS

\* The inductive invariant holds of a key nobody has used.
LEMMA InitIInv == Init => IInv
<1> SUFFICES ASSUME Init PROVE IInv  OBVIOUS
<1>1. TypeOK
  <2>1. 1 \in 1..Stages /\ 0 \in 0..(Tries - 1)  BY GatewayAssumption
  <2>2. /\ stage \in [Requests -> 1..Stages] /\ tries \in [Requests -> 0..(Tries - 1)]
        /\ exec \in [Requests -> 0..execs] /\ effects \in [1..Stages -> Nat]
    BY <2>1 DEF Init
  <2>3. /\ status \in {"absent", "pending", "completed", "failed"}
        /\ hash \in {HashOf[r] : r \in Requests} \union {NoHash}
        /\ lapsed \in BOOLEAN
        /\ pc \in [Requests -> {"idle", "posting", "evaluated", "failing"}]
    BY DEF Init
  <2>4. answer \in 0..execs /\ execs \in Nat /\ given \subseteq 0..execs
    BY DEF Init
  <2>5. lapses \in Nat /\ faults \in Nat  BY DEF Init
  <2>6. QED  BY <2>2, <2>3, <2>4, <2>5 DEF TypeOK
<1>2. AnsweredIsStored /\ CompletedHadEffects  BY DEF Init, AnsweredIsStored, CompletedHadEffects
<1>3. ProgressHadEffects  BY DEF Init, ProgressHadEffects
<1>4. ExecutingReserved  BY DEF Init, ExecutingReserved, Executing
<1>5. ExecutionsCounted  BY DEF Init, ExecutionsCounted
<1>6. QED  BY <1>1, <1>2, <1>3, <1>4, <1>5 DEF IInv

\* A new execution has posted nothing yet and gets a number of its own.
LEMMA BeginKeeps ==
  ASSUME IInv, NEW r \in Requests, BeginExecution(r), UNCHANGED effects
  PROVE  /\ pc' \in [Requests -> {"idle", "posting", "evaluated", "failing"}]
         /\ exec' \in [Requests -> 0..execs']
         /\ stage' \in [Requests -> 1..Stages]
         /\ tries' \in [Requests -> 0..(Tries - 1)]
         /\ execs' \in Nat
         /\ answer \in 0..execs'
         /\ given \subseteq 0..execs'
         /\ ProgressHadEffects'
<1>1. TypeOK /\ ProgressHadEffects  BY DEF IInv
<1>2. pc' \in [Requests -> {"idle", "posting", "evaluated", "failing"}]
  BY <1>1 DEF TypeOK, BeginExecution, Goto
<1>3. execs' \in Nat /\ answer \in 0..execs' /\ given \subseteq 0..execs'
  BY <1>1 DEF TypeOK, BeginExecution
<1>4. exec' \in [Requests -> 0..execs']
  BY <1>1 DEF TypeOK, BeginExecution
<1>5. stage' \in [Requests -> 1..Stages]
  BY <1>1, GatewayAssumption DEF TypeOK, BeginExecution
<1>6. tries' \in [Requests -> 0..(Tries - 1)]
  BY <1>1, GatewayAssumption DEF TypeOK, BeginExecution
<1>7. ProgressHadEffects'
  <2>1. pc' = [pc EXCEPT ![r] = "posting"] /\ stage' = [stage EXCEPT ![r] = 1]
    BY DEF BeginExecution, Goto
  <2>2. SUFFICES ASSUME NEW q \in Requests
                 PROVE  /\ pc'[q] = "posting" =>
                             \A s \in 1..Stages : s < stage'[q] => effects[s] > 0
                        /\ pc'[q] = "evaluated" => \A s \in 1..Stages : effects[s] > 0
    BY DEF ProgressHadEffects
  <2>3. CASE q = r
    <3>1. pc'[q] = "posting" /\ stage'[q] = 1  BY <1>1, <2>1, <2>3 DEF TypeOK
    <3>2. QED  BY <3>1
  <2>4. CASE q # r
    <3>1. pc'[q] = pc[q] /\ stage'[q] = stage[q]  BY <1>1, <2>1, <2>4 DEF TypeOK
    <3>2. QED  BY <1>1, <3>1 DEF ProgressHadEffects
  <2>5. QED  BY <2>3, <2>4
<1>8. QED  BY <1>2, <1>3, <1>4, <1>5, <1>6, <1>7

\* One execution is accounted for without any lapse.
LEMMA OneIsCounted == ASSUME NEW e, NEW n \in Nat, e = 1 PROVE e <= 1 + n
OBVIOUS

\* The first reservation: the row did not exist, so nobody was given anything.
LEMMA ReserveNewKeeps ==
  ASSUME IInv, NEW r \in Requests, ReserveNew(r)
  PROVE  IInv'
<1>1. TypeOK /\ AnsweredIsStored /\ ExecutingReserved /\ ExecutionsCounted  BY DEF IInv
<1>2. BeginExecution(r) /\ UNCHANGED <<answer, effects, given, lapses, faults>>
  BY DEF ReserveNew
<1>3. /\ pc' \in [Requests -> {"idle", "posting", "evaluated", "failing"}]
      /\ exec' \in [Requests -> 0..execs'] /\ stage' \in [Requests -> 1..Stages]
      /\ tries' \in [Requests -> 0..(Tries - 1)] /\ execs' \in Nat
      /\ answer \in 0..execs' /\ given \subseteq 0..execs'
      /\ ProgressHadEffects'
  BY <1>2, BeginKeeps
<1>4. status' = "pending" /\ hash' = HashOf[r] /\ lapsed' = FALSE /\ status = "absent"
  BY DEF ReserveNew
<1>5. TypeOK'  BY <1>1, <1>2, <1>3, <1>4 DEF TypeOK
<1>6. given' = {} /\ execs = 0  BY <1>1, <1>2, <1>4 DEF ExecutingReserved
<1>7. AnsweredIsStored' /\ CompletedHadEffects' /\ ExecutingReserved'
  BY <1>4, <1>6 DEF AnsweredIsStored, CompletedHadEffects, ExecutingReserved
<1>8. ExecutionsCounted'
  <2>1. execs' = 1 /\ lapses' \in Nat  BY <1>1, <1>2, <1>6 DEF BeginExecution, TypeOK
  <2>2. execs' <= 1 + lapses'  BY <2>1, OneIsCounted
  <2>3. QED  BY <1>4, <2>2 DEF ExecutionsCounted
<1>9. QED  BY <1>3, <1>5, <1>7, <1>8 DEF IInv

\* A takeover: the row is pending, and uses up the lapse of its lock.
LEMMA TakeOverKeeps ==
  ASSUME IInv, NEW r \in Requests, TakeOver(r)
  PROVE  IInv'
<1>1. TypeOK /\ AnsweredIsStored /\ ExecutionsCounted  BY DEF IInv
<1>2. BeginExecution(r) /\ UNCHANGED <<status, hash, answer, effects, given, lapses, faults>>
  BY DEF TakeOver, keyRow
<1>3. /\ pc' \in [Requests -> {"idle", "posting", "evaluated", "failing"}]
      /\ exec' \in [Requests -> 0..execs'] /\ stage' \in [Requests -> 1..Stages]
      /\ tries' \in [Requests -> 0..(Tries - 1)] /\ execs' \in Nat
      /\ answer \in 0..execs' /\ given \subseteq 0..execs'
      /\ ProgressHadEffects'
  BY <1>2, BeginKeeps
<1>4. status = "pending" /\ lapsed /\ lapsed' = FALSE  BY DEF TakeOver
<1>5. TypeOK'  BY <1>1, <1>2, <1>3, <1>4 DEF TypeOK
<1>6. AnsweredIsStored' /\ CompletedHadEffects' /\ ExecutingReserved'
  BY <1>1, <1>2, <1>4 DEF AnsweredIsStored, CompletedHadEffects, ExecutingReserved
<1>7. ExecutionsCounted'
  <2>1. execs' = execs + 1 /\ execs <= lapses /\ lapses' = lapses
    BY <1>1, <1>2, <1>4 DEF BeginExecution, ExecutionsCounted
  <2>2. execs \in Nat /\ lapses \in Nat  BY <1>1 DEF TypeOK
  <2>3. execs' <= 1 + lapses'  BY <2>1, <2>2
  <2>4. QED  BY <1>4, <2>3 DEF ExecutionsCounted
<1>8. QED  BY <1>3, <1>5, <1>6, <1>7 DEF IInv

\* A replay hands out the stored evaluation.
LEMMA ReplayKeeps ==
  ASSUME IInv, NEW r \in Requests, Replay(r)
  PROVE  IInv'
<1>1. /\ TypeOK /\ AnsweredIsStored /\ CompletedHadEffects /\ ProgressHadEffects
      /\ ExecutingReserved /\ ExecutionsCounted
  BY DEF IInv
<1>2. /\ UNCHANGED <<status, hash, answer, lapsed, pc, exec, stage, tries, execs, effects,
                     lapses, faults>>
      /\ status = "completed"
      /\ given' = given \union {answer}
  BY DEF Replay, keyRow, request
<1>3. TypeOK'  BY <1>1, <1>2 DEF TypeOK
<1>4. AnsweredIsStored'  BY <1>1, <1>2 DEF AnsweredIsStored
<1>5. CompletedHadEffects' /\ ProgressHadEffects' /\ ExecutingReserved'
  BY <1>1, <1>2 DEF CompletedHadEffects, ProgressHadEffects, ExecutingReserved
<1>6. ExecutionsCounted'  BY <1>1, <1>2 DEF ExecutionsCounted
<1>7. QED  BY <1>3, <1>4, <1>5, <1>6 DEF IInv

-----------------------------------------------------------------------------
(* The pipeline *)

\* Only the effects and the place of one request change: what the pipeline's steps
\* have in common.
LEMMA PostFrame ==
  ASSUME IInv, UNCHANGED <<keyRow, lapsed, exec, execs, given, lapses, faults>>,
         NEW r \in Requests, pc[r] = "posting",
         pc' \in [Requests -> {"idle", "posting", "evaluated", "failing"}],
         stage' \in [Requests -> 1..Stages], tries' \in [Requests -> 0..(Tries - 1)],
         effects' \in [1..Stages -> Nat],
         \A s \in 1..Stages : effects[s] > 0 => effects'[s] > 0,
         ProgressHadEffects'
  PROVE  IInv'
<1>1. /\ TypeOK /\ AnsweredIsStored /\ CompletedHadEffects /\ ExecutingReserved
      /\ ExecutionsCounted
  BY DEF IInv
<1>2. UNCHANGED <<status, hash, answer>>  BY DEF keyRow
<1>3. TypeOK'  BY <1>1, <1>2 DEF TypeOK
<1>4. AnsweredIsStored' /\ CompletedHadEffects'
  BY <1>1, <1>2 DEF AnsweredIsStored, CompletedHadEffects
<1>5. status # "absent"  BY <1>1 DEF ExecutingReserved, Executing
<1>6. ExecutingReserved'  BY <1>2, <1>5 DEF ExecutingReserved
<1>7. ExecutionsCounted'  BY <1>1 DEF ExecutionsCounted
<1>8. QED  BY <1>3, <1>4, <1>6, <1>7 DEF IInv

\* A service committed: the request is past it.
LEMMA PostAnsweredKeeps ==
  ASSUME IInv, NEW r \in Requests, PostAnswered(r)
  PROVE  IInv'
<1>1. TypeOK /\ ProgressHadEffects  BY DEF IInv
<1> DEFINE k == stage[r]
<1>2. k \in 1..Stages /\ pc[r] = "posting"  BY <1>1 DEF TypeOK, PostAnswered
<1>3. effects' = [effects EXCEPT ![k] = @ + 1]  BY DEF PostAnswered
<1>4. /\ effects' \in [1..Stages -> Nat]
      /\ effects'[k] > 0
      /\ \A s \in 1..Stages : effects[s] > 0 => effects'[s] > 0
  BY <1>1, <1>2, <1>3 DEF TypeOK
<1>5. tries' \in [Requests -> 0..(Tries - 1)]
  BY <1>1, GatewayAssumption DEF TypeOK, PostAnswered
<1>6. \A s \in 1..Stages : s < k => effects'[s] > 0
  BY <1>1, <1>2, <1>4 DEF ProgressHadEffects
<1>7. \A s \in 1..Stages : s < k + 1 => effects'[s] > 0
  BY <1>2, <1>4, <1>6
<1>8. CASE k < Stages
  <2>1. stage' = [stage EXCEPT ![r] = k + 1] /\ pc' = pc
    BY <1>8 DEF PostAnswered
  <2>2. stage' \in [Requests -> 1..Stages] /\ stage'[r] = k + 1
    BY <1>1, <1>2, <1>8, <2>1, GatewayAssumption DEF TypeOK
  <2>3. ProgressHadEffects'
    <3>1. SUFFICES ASSUME NEW q \in Requests
                   PROVE  /\ pc'[q] = "posting" =>
                               \A s \in 1..Stages : s < stage'[q] => effects'[s] > 0
                          /\ pc'[q] = "evaluated" => \A s \in 1..Stages : effects'[s] > 0
      BY DEF ProgressHadEffects
    <3>2. CASE q = r  BY <3>2, <1>2, <1>7, <2>1, <2>2
    <3>3. CASE q # r
      <4>1. stage'[q] = stage[q]  BY <3>3, <2>1, <1>1 DEF TypeOK
      <4>2. QED  BY <4>1, <2>1, <1>1, <1>4 DEF ProgressHadEffects
    <3>4. QED  BY <3>2, <3>3
  <2>4. QED
    BY <1>1, <1>2, <1>4, <1>5, <2>1, <2>2, <2>3, PostFrame DEF TypeOK, PostAnswered
<1>9. CASE ~(k < Stages)
  <2>1. pc' = [pc EXCEPT ![r] = "evaluated"] /\ stage' = stage
    BY <1>9 DEF PostAnswered, Goto
  <2>2. \A s \in 1..Stages : effects'[s] > 0
    <3>1. k = Stages  BY <1>2, <1>9, GatewayAssumption
    <3>2. QED  BY <1>7, <3>1, GatewayAssumption
  <2>3. ProgressHadEffects'
    BY <2>2 DEF ProgressHadEffects
  <2>4. pc' \in [Requests -> {"idle", "posting", "evaluated", "failing"}]
    BY <1>1, <2>1 DEF TypeOK
  <2>5. QED
    BY <1>1, <1>2, <1>4, <1>5, <2>1, <2>3, <2>4, PostFrame DEF TypeOK, PostAnswered
<1>10. QED  BY <1>8, <1>9

\* A try failed: the request stays where it is or gives up.
LEMMA PostTryFailsKeeps ==
  ASSUME IInv, NEW r \in Requests, PostTryFails(r)
  PROVE  IInv'
<1>1. TypeOK /\ ProgressHadEffects  BY DEF IInv
<1>2. PICK done \in {0, 1} : effects' = [effects EXCEPT ![stage[r]] = @ + done]
  BY DEF PostTryFails
<1>3. /\ effects' \in [1..Stages -> Nat]
      /\ \A s \in 1..Stages : effects[s] > 0 => effects'[s] > 0
  BY <1>1, <1>2 DEF TypeOK
<1>4. pc' = pc \/ pc' = [pc EXCEPT ![r] = "failing"]
  BY DEF PostTryFails, GiveUp, TryAgain, Goto
<1>5. pc' \in [Requests -> {"idle", "posting", "evaluated", "failing"}]
  BY <1>1, <1>4 DEF TypeOK
<1>6. tries' \in [Requests -> 0..(Tries - 1)]
  <2>1. CASE tries[r] + 1 < Tries /\ TryAgain(r)
    <3>1. tries' = [tries EXCEPT ![r] = tries[r] + 1]  BY <2>1 DEF TryAgain
    <3>2. tries[r] + 1 \in 0..(Tries - 1)
      BY <2>1, <1>1, GatewayAssumption DEF TypeOK
    <3>3. QED  BY <1>1, <3>1, <3>2 DEF TypeOK
  <2>2. CASE tries' = [tries EXCEPT ![r] = 0]
    BY <1>1, <2>2, GatewayAssumption DEF TypeOK
  <2>3. QED  BY <2>1, <2>2 DEF PostTryFails, GiveUp
<1>7. ProgressHadEffects'
  <2>1. SUFFICES ASSUME NEW q \in Requests
                 PROVE  /\ pc'[q] = "posting" =>
                             \A s \in 1..Stages : s < stage'[q] => effects'[s] > 0
                        /\ pc'[q] = "evaluated" => \A s \in 1..Stages : effects'[s] > 0
    BY DEF ProgressHadEffects
  <2>2. stage'[q] = stage[q]  BY DEF PostTryFails
  <2>3. pc'[q] = pc[q] \/ pc'[q] = "failing"  BY <1>1, <1>4 DEF TypeOK
  <2>4. QED  BY <1>1, <1>3, <2>2, <2>3 DEF ProgressHadEffects
<1>8. stage' \in [Requests -> 1..Stages]  BY <1>1 DEF PostTryFails, TypeOK
<1>9. QED
  BY <1>3, <1>5, <1>6, <1>7, <1>8, PostFrame DEF PostTryFails

-----------------------------------------------------------------------------
(* The end of a request *)

\* A request leaves the row to the others: what holds of them goes on holding.
LEMMA LeaveKeeps ==
  ASSUME IInv, NEW r \in Requests, Leave(r), UNCHANGED <<effects, execs>>
  PROVE  /\ pc' \in [Requests -> {"idle", "posting", "evaluated", "failing"}]
         /\ exec' \in [Requests -> 0..execs']
         /\ stage' \in [Requests -> 1..Stages]
         /\ tries' \in [Requests -> 0..(Tries - 1)]
         /\ ProgressHadEffects'
<1>1. TypeOK /\ ProgressHadEffects  BY DEF IInv
<1>2. pc' = [pc EXCEPT ![r] = "idle"] /\ stage' = [stage EXCEPT ![r] = 1]
  BY DEF Leave, Goto
<1>3. pc' \in [Requests -> {"idle", "posting", "evaluated", "failing"}]
  BY <1>1, <1>2 DEF TypeOK
<1>4. exec' \in [Requests -> 0..execs']  BY <1>1 DEF TypeOK, Leave
<1>5. stage' \in [Requests -> 1..Stages]  BY <1>1, <1>2, GatewayAssumption DEF TypeOK
<1>6. tries' \in [Requests -> 0..(Tries - 1)]
  BY <1>1, GatewayAssumption DEF TypeOK, Leave
<1>7. ProgressHadEffects'
  <2>1. SUFFICES ASSUME NEW q \in Requests
                 PROVE  /\ pc'[q] = "posting" =>
                             \A s \in 1..Stages : s < stage'[q] => effects[s] > 0
                        /\ pc'[q] = "evaluated" => \A s \in 1..Stages : effects[s] > 0
    BY DEF ProgressHadEffects
  <2>2. CASE q = r
    <3>1. pc'[q] = "idle"  BY <1>1, <1>2, <2>2 DEF TypeOK
    <3>2. QED  BY <3>1
  <2>3. CASE q # r
    <3>1. pc'[q] = pc[q] /\ stage'[q] = stage[q]  BY <1>1, <1>2, <2>3 DEF TypeOK
    <3>2. QED  BY <1>1, <3>1 DEF ProgressHadEffects
  <2>4. QED  BY <2>2, <2>3
<1>8. QED  BY <1>3, <1>4, <1>5, <1>6, <1>7

\* A request ends and may have settled the row: its evaluation is given out only
\* if the row was pending, when nobody had been given any.
LEMMA SettleKeeps ==
  ASSUME IInv, NEW r \in Requests, Leave(r),
         UNCHANGED <<hash, lapsed, execs, effects, lapses>>, faults' \in Nat,
         \/ pc[r] = "evaluated" /\ Settle(r, "completed")
         \/ pc[r] = "failing" /\ Settle(r, "failed"),
         \/ given' = given
         \/ /\ pc[r] = "evaluated" /\ status = "pending"
            /\ Settle(r, "completed")
            /\ given' = given \union {exec[r]}
  PROVE  IInv'
<1>1. /\ TypeOK /\ AnsweredIsStored /\ CompletedHadEffects /\ ProgressHadEffects
      /\ ExecutingReserved /\ ExecutionsCounted
  BY DEF IInv
<1>2. /\ pc' \in [Requests -> {"idle", "posting", "evaluated", "failing"}]
      /\ exec' \in [Requests -> 0..execs'] /\ stage' \in [Requests -> 1..Stages]
      /\ tries' \in [Requests -> 0..(Tries - 1)] /\ ProgressHadEffects'
  BY LeaveKeeps
<1>3. exec[r] \in 0..execs  BY <1>1 DEF TypeOK
<1>4. status' \in {"absent", "pending", "completed", "failed"} /\ answer' \in 0..execs'
  BY <1>1, <1>3 DEF TypeOK, Settle
<1>5. given' \subseteq 0..execs'  BY <1>1, <1>3 DEF TypeOK
<1>6. TypeOK'  BY <1>1, <1>2, <1>4, <1>5 DEF TypeOK
<1>7. status # "absent"  BY <1>1 DEF ExecutingReserved, Executing
<1>8. status' # "absent"  BY <1>7 DEF Settle
<1>9. AnsweredIsStored'  BY <1>1 DEF AnsweredIsStored, Settle
<1>10. CompletedHadEffects'
  <2>1. CASE status = "completed"
    BY <1>1, <2>1 DEF CompletedHadEffects
  <2>2. CASE status # "completed" /\ status' = "completed"
    <3>1. pc[r] = "evaluated"  BY <2>2 DEF Settle
    <3>2. QED  BY <1>1, <3>1 DEF ProgressHadEffects, CompletedHadEffects
  <2>3. QED  BY <2>1, <2>2 DEF CompletedHadEffects
<1>11. ExecutingReserved'  BY <1>8 DEF ExecutingReserved
<1>12. ExecutionsCounted'  BY <1>1 DEF ExecutionsCounted
<1>13. QED  BY <1>2, <1>6, <1>9, <1>10, <1>11, <1>12 DEF IInv

\* The request dies and the row stays as it is.
LEMMA CrashKeeps ==
  ASSUME IInv, NEW r \in Requests, Crash(r)
  PROVE  IInv'
<1>1. /\ TypeOK /\ AnsweredIsStored /\ CompletedHadEffects /\ ExecutingReserved
      /\ ExecutionsCounted
  BY DEF IInv
<1>2. /\ Leave(r) /\ UNCHANGED <<status, hash, answer, lapsed, execs, effects, given, lapses>>
      /\ pc[r] # "idle"
      /\ faults' \in Nat
  BY <1>1 DEF Crash, Fault, TypeOK, keyRow
<1>3. /\ pc' \in [Requests -> {"idle", "posting", "evaluated", "failing"}]
      /\ exec' \in [Requests -> 0..execs'] /\ stage' \in [Requests -> 1..Stages]
      /\ tries' \in [Requests -> 0..(Tries - 1)] /\ ProgressHadEffects'
  BY <1>2, LeaveKeeps
<1>4. TypeOK'  BY <1>1, <1>2, <1>3 DEF TypeOK
<1>5. status # "absent"  BY <1>1, <1>2 DEF ExecutingReserved, Executing
<1>6. AnsweredIsStored' /\ CompletedHadEffects' /\ ExecutingReserved'
  BY <1>1, <1>2, <1>5 DEF AnsweredIsStored, CompletedHadEffects, ExecutingReserved
<1>7. ExecutionsCounted'  BY <1>1, <1>2 DEF ExecutionsCounted
<1>8. QED  BY <1>3, <1>4, <1>6, <1>7 DEF IInv

-----------------------------------------------------------------------------
(* Time and the operator *)

\* A lapse is counted in the step that lets the lock grow old.
LEMMA LapseCounted ==
  ASSUME NEW e \in Nat, NEW n \in Nat, e <= 1 + n
  PROVE  n + 1 \in Nat /\ e <= n + 1 /\ e <= 1 + (n + 1)
OBVIOUS

\* The lock of a pending row grows old.
LEMMA LapseKeeps ==
  ASSUME IInv, LockLapses \/ LockOverrun
  PROVE  IInv'
<1>1. /\ TypeOK /\ AnsweredIsStored /\ CompletedHadEffects /\ ProgressHadEffects
      /\ ExecutionsCounted
  BY DEF IInv
<1>2. /\ UNCHANGED <<status, hash, answer, pc, exec, stage, tries, execs, effects, given>>
      /\ status = "pending" /\ lapsed' = TRUE /\ lapses' = lapses + 1
  BY DEF LockLapses, LockOverrun, keyRow, request
<1>3. faults' \in Nat  BY <1>1 DEF LockLapses, LockOverrun, Fault, TypeOK
<1>4. lapses' \in Nat /\ execs <= lapses' /\ execs <= 1 + lapses'
  BY <1>1, <1>2, LapseCounted DEF TypeOK, ExecutionsCounted
<1>5. TypeOK'  BY <1>1, <1>2, <1>3, <1>4 DEF TypeOK
<1>6. AnsweredIsStored' /\ CompletedHadEffects' /\ ProgressHadEffects' /\ ExecutingReserved'
  BY <1>1, <1>2 DEF AnsweredIsStored, CompletedHadEffects, ProgressHadEffects, ExecutingReserved
<1>7. ExecutionsCounted'  BY <1>2, <1>4 DEF ExecutionsCounted
<1>8. QED  BY <1>5, <1>6, <1>7 DEF IInv

\* The migration opens a failed key again; nobody was given an evaluation of it.
LEMMA ReapplyMigrationKeeps ==
  ASSUME IInv, ReapplyMigration
  PROVE  IInv'
<1>1. /\ TypeOK /\ AnsweredIsStored /\ CompletedHadEffects /\ ProgressHadEffects
      /\ ExecutionsCounted
  BY DEF IInv
<1>2. /\ UNCHANGED <<hash, answer, pc, exec, stage, tries, execs, effects, given>>
      /\ status = "failed" /\ status' = "pending" /\ lapsed' \in BOOLEAN
      /\ lapses' = IF lapsed' THEN lapses + 1 ELSE lapses
  BY DEF ReapplyMigration, request
<1>3. faults' \in Nat  BY <1>1 DEF ReapplyMigration, Fault, TypeOK
<1>4. execs \in Nat /\ lapses \in Nat /\ execs <= 1 + lapses
  BY <1>1 DEF TypeOK, ExecutionsCounted
<1>5. lapses' \in Nat /\ execs <= 1 + lapses' /\ (lapsed' => execs <= lapses')
  <2>1. CASE lapsed'  BY <1>2, <1>4, <2>1, LapseCounted
  <2>2. CASE ~lapsed'  BY <1>2, <1>4, <2>2
  <2>3. QED  BY <2>1, <2>2
<1>6. TypeOK'  BY <1>1, <1>2, <1>3, <1>5 DEF TypeOK
<1>7. given = {}  BY <1>1, <1>2 DEF AnsweredIsStored
<1>8. AnsweredIsStored' /\ CompletedHadEffects' /\ ProgressHadEffects' /\ ExecutingReserved'
  BY <1>1, <1>2, <1>7
  DEF AnsweredIsStored, CompletedHadEffects, ProgressHadEffects, ExecutingReserved
<1>9. ExecutionsCounted'  BY <1>2, <1>5 DEF ExecutionsCounted
<1>10. QED  BY <1>6, <1>8, <1>9 DEF IInv

-----------------------------------------------------------------------------
(* The invariant and what follows from it *)

\* Every step keeps the invariant.
LEMMA NextIInv == IInv /\ [Next]_vars => IInv'
<1> SUFFICES ASSUME IInv, [Next]_vars PROVE IInv'  OBVIOUS
<1>1. ASSUME NEW r \in Requests, Reserve(r) PROVE IInv'
  BY <1>1, ReserveNewKeeps, TakeOverKeeps, ReplayKeeps DEF Reserve
<1>2. ASSUME NEW r \in Requests, Work(r) PROVE IInv'
  <2>1. CASE PostAnswered(r)  BY <2>1, PostAnsweredKeeps
  <2>2. CASE PostTryFails(r)  BY <2>2, PostTryFailsKeeps
  <2>3. CASE PersistResponse(r)
    <3>1. faults' \in Nat  BY <2>3 DEF PersistResponse, IInv, TypeOK
    <3>2. QED  BY <2>3, <3>1, SettleKeeps DEF PersistResponse
  <2>4. CASE PersistFailure(r)
    <3>1. faults' \in Nat  BY <2>4 DEF PersistFailure, IInv, TypeOK
    <3>2. QED  BY <2>4, <3>1, SettleKeeps DEF PersistFailure
  <2>5. QED  BY <1>2, <2>1, <2>2, <2>3, <2>4 DEF Work
<1>3. ASSUME NEW r \in Requests, PersistUnanswered(r) PROVE IInv'
  <2>1. faults' \in Nat  BY <1>3 DEF PersistUnanswered, Fault, IInv, TypeOK
  <2>2. QED  BY <1>3, <2>1, SettleKeeps DEF PersistUnanswered
<1>4. ASSUME NEW r \in Requests, Crash(r) PROVE IInv'
  BY <1>4, CrashKeeps
<1>5. CASE LockLapses \/ LockOverrun  BY <1>5, LapseKeeps
<1>6. CASE ReapplyMigration  BY <1>6, ReapplyMigrationKeeps
<1>7. CASE UNCHANGED vars
  BY <1>7
  DEF vars, keyRow, request, IInv, TypeOK, AnsweredIsStored, CompletedHadEffects,
      ProgressHadEffects, ExecutingReserved, Executing, ExecutionsCounted
<1>8. QED  BY <1>1, <1>2, <1>3, <1>4, <1>5, <1>6, <1>7 DEF Next

\* The invariant holds of every behaviour.
LEMMA IInvHolds == Spec => []IInv
<1>1. QED  BY InitIInv, NextIInv, PTL DEF Spec

\* Every variable keeps to its type: no try past RETRY_MAX_ATTEMPTS, and no stored or
\* returned evaluation that was not executed.
THEOREM TypeCorrect == Spec => []TypeOK
<1>1. IInv => TypeOK  BY DEF IInv
<1>2. QED  BY <1>1, IInvHolds, PTL

\* Whatever evaluation a client got is the stored one, however many requests took the
\* key over from each other and in whatever order they ended.
THEOREM AnsweredIsStoredHolds == Spec => []AnsweredIsStored
<1>1. IInv => AnsweredIsStored  BY DEF IInv
<1>2. QED  BY <1>1, IInvHolds, PTL

\* A stored evaluation was committed by every service.
THEOREM CompletedHadEffectsHolds == Spec => []CompletedHadEffects
<1>1. IInv => CompletedHadEffects  BY DEF IInv
<1>2. QED  BY <1>1, IInvHolds, PTL

\* The pipeline runs again only after the lock grew old, once for each time.
THEOREM ExecutionsCountedHolds == Spec => []ExecutionsCounted
<1>1. IInv => ExecutionsCounted  BY DEF IInv
<1>2. QED  BY <1>1, IInvHolds, PTL

\* A completed key keeps its outcome for good and no request reopens a failed one.
THEOREM SettledIsFinalHolds == Spec => SettledIsFinal
<1>1. [Next]_vars => [SettledKeyKept]_vars
  <2> SUFFICES ASSUME Next PROVE SettledKeyKept  OBVIOUS
  <2>1. ASSUME NEW r \in Requests, Reserve(r) PROVE SettledKeyKept
    BY <2>1 DEF Reserve, ReserveNew, TakeOver, Replay, SettledKeyKept, keyRow
  <2>2. ASSUME NEW r \in Requests, Work(r) PROVE SettledKeyKept
    BY <2>2
    DEF Work, PostAnswered, PostTryFails, PersistResponse, PersistFailure, Settle,
        SettledKeyKept, keyRow
  <2>3. ASSUME NEW r \in Requests, PersistUnanswered(r) \/ Crash(r) PROVE SettledKeyKept
    BY <2>3 DEF PersistUnanswered, Crash, Settle, SettledKeyKept, keyRow
  <2>4. CASE LockLapses \/ LockOverrun
    BY <2>4 DEF LockLapses, LockOverrun, SettledKeyKept, keyRow
  <2>5. CASE ReapplyMigration
    BY <2>5 DEF ReapplyMigration, SettledKeyKept, keyRow
  <2>6. QED  BY <2>1, <2>2, <2>3, <2>4, <2>5 DEF Next
<1>2. QED  BY <1>1, PTL DEF Spec, SettledIsFinal
-----------------------------------------------------------------------------
(* Evaluations are paid for by executions *)

\* The tries that executions under way may still make at service s.
PostsDue(s) ==
  {p \in Requests \X (1 .. Tries) :
     /\ pc[p[1]] = "posting"
     /\ stage[p[1]] < s \/ (stage[p[1]] = s /\ tries[p[1]] < p[2])}

\* An execution brings all its tries for every service, and a try leaves one
\* evaluation at most.
PostBudget ==
  \A s \in 1..Stages : effects[s] + Cardinality(PostsDue(s)) <= Tries * execs

\* Sets of tries have a size.
LEMMA PostsCounted ==
  ASSUME NEW S \in SUBSET (Requests \X (1 .. Tries))
  PROVE  IsFiniteSet(S) /\ Cardinality(S) \in Nat
<1>1. IsFiniteSet(1 .. Tries)  BY GatewayAssumption, FS_Interval
<1>2. IsFiniteSet(Requests \X (1 .. Tries))  BY <1>1, GatewayAssumption, FS_Product
<1>3. QED  BY <1>2, FS_Subset, FS_CardinalityType

\* What the budget is about, as numbers.
LEMMA BudgetTyped ==
  ASSUME IInv, PostBudget, NEW s \in 1..Stages
  PROVE  /\ effects[s] \in Nat /\ execs \in Nat /\ Tries * execs \in Nat
         /\ IsFiniteSet(PostsDue(s)) /\ Cardinality(PostsDue(s)) \in Nat
         /\ effects[s] + Cardinality(PostsDue(s)) <= Tries * execs
<1>1. effects[s] \in Nat /\ execs \in Nat /\ Tries \in Nat
  BY GatewayAssumption DEF IInv, TypeOK
<1>2. Tries * execs \in Nat  BY <1>1
<1>3. PostsDue(s) \in SUBSET (Requests \X (1 .. Tries))  BY DEF PostsDue
<1>4. QED  BY <1>1, <1>2, <1>3, PostsCounted DEF PostBudget

\* No execution begins and no service commits: posts only become fewer.
LEMMA BudgetKept ==
  ASSUME IInv, PostBudget, UNCHANGED <<effects, execs>>,
         \A q \in Requests : pc'[q] = "posting" =>
           pc[q] = "posting" /\ stage'[q] = stage[q] /\ tries'[q] = tries[q]
  PROVE  PostBudget'
<1> SUFFICES ASSUME NEW s \in 1..Stages
             PROVE  effects'[s] + Cardinality(PostsDue(s)') <= Tries * execs'
  BY DEF PostBudget
<1>1. PostsDue(s)' \in SUBSET PostsDue(s)  BY DEF PostsDue
<1>2. /\ Cardinality(PostsDue(s)') <= Cardinality(PostsDue(s))
      /\ Cardinality(PostsDue(s)') \in Nat
  BY <1>1, BudgetTyped, FS_Subset, FS_CardinalityType
<1>3. effects'[s] = effects[s] /\ execs' = execs  OBVIOUS
<1>4. QED  BY <1>2, <1>3, BudgetTyped

\* An execution begins, with all its tries before it.
LEMMA BeginBudgeted ==
  ASSUME IInv, PostBudget, NEW r \in Requests, pc[r] = "idle", BeginExecution(r),
         UNCHANGED effects
  PROVE  PostBudget'
<1> SUFFICES ASSUME NEW s \in 1..Stages
             PROVE  effects'[s] + Cardinality(PostsDue(s)') <= Tries * execs'
  BY DEF PostBudget
<1> DEFINE all == {r} \X (1 .. Tries)
<1>1. /\ Tries \in Nat /\ effects'[s] = effects[s] /\ execs' = execs + 1
      /\ \A q \in Requests \ {r} : pc'[q] = pc[q] /\ stage'[q] = stage[q] /\ tries'[q] = tries[q]
  BY GatewayAssumption DEF BeginExecution, Goto, IInv, TypeOK
<1>2. \A p \in PostsDue(s)' : p \in PostsDue(s) \/ p \in all
  BY <1>1 DEF PostsDue
<1>3. IsFiniteSet(1 .. Tries) /\ Cardinality(1 .. Tries) = Tries
  BY <1>1, FS_Interval
<1>4. IsFiniteSet({r}) /\ Cardinality({r}) = 1
  BY FS_Singleton
<1>5. IsFiniteSet(all) /\ Cardinality(all) = Tries
  <2>1. IsFiniteSet(all) /\ Cardinality(all) = Cardinality({r}) * Cardinality(1 .. Tries)
    BY <1>3, <1>4, FS_Product
  <2>2. QED  BY <1>1, <1>3, <1>4, <2>1
<1>6. Cardinality(PostsDue(s) \intersect all) \in Nat
  <2>1. all \subseteq Requests \X (1 .. Tries)  OBVIOUS
  <2>2. QED  BY <2>1, PostsCounted
<1>7. /\ IsFiniteSet(PostsDue(s) \union all)
      /\ Cardinality(PostsDue(s) \union all)
           = Cardinality(PostsDue(s)) + Tries - Cardinality(PostsDue(s) \intersect all)
  BY <1>5, BudgetTyped, FS_Union
<1>8. PostsDue(s)' \in SUBSET (PostsDue(s) \union all)
  BY <1>2
<1>9. /\ Cardinality(PostsDue(s)') <= Cardinality(PostsDue(s) \union all)
      /\ Cardinality(PostsDue(s)') \in Nat
  BY <1>7, <1>8, FS_Subset, FS_CardinalityType
<1>10. Tries * (execs + 1) = Tries * execs + Tries
  BY <1>1, BudgetTyped
<1>11. QED
  BY <1>1, <1>6, <1>7, <1>9, <1>10, BudgetTyped

\* A try is used up: the same post again, the next service, or no more posts.
LEMMA TryUsed ==
  ASSUME IInv, PostBudget, NEW r \in Requests, pc[r] = "posting",
         NEW done \in {0, 1},
         effects' = [effects EXCEPT ![stage[r]] = effects[stage[r]] + done],
         execs' = execs,
         \A q \in Requests \ {r} : pc'[q] = pc[q] /\ stage'[q] = stage[q] /\ tries'[q] = tries[q],
         pc'[r] = "posting" =>
           \/ stage'[r] = stage[r] /\ tries'[r] = tries[r] + 1
           \/ stage'[r] = stage[r] + 1 /\ tries'[r] = 0
  PROVE  PostBudget'
<1> SUFFICES ASSUME NEW s \in 1..Stages
             PROVE  effects'[s] + Cardinality(PostsDue(s)') <= Tries * execs'
  BY DEF PostBudget
<1> DEFINE used == <<r, tries[r] + 1>>
<1>1. /\ stage[r] \in 1..Stages /\ tries[r] \in 0..(Tries - 1)
      /\ Tries \in Nat \ {0} /\ Stages \in Nat
      /\ effects \in [1..Stages -> Nat]
  BY GatewayAssumption DEF IInv, TypeOK
<1>2. ASSUME NEW p \in PostsDue(s)'
      PROVE  p \in PostsDue(s) /\ (s = stage[r] => p # used)
  <2>1. p \in Requests \X (1 .. Tries) /\ p[2] \in 1 .. Tries
    BY DEF PostsDue
  <2>2. CASE p[1] = r
    <3>1. /\ pc'[r] = "posting"
          /\ stage'[r] < s \/ (stage'[r] = s /\ tries'[r] < p[2])
      BY <1>2, <2>2 DEF PostsDue
    <3>2. CASE stage'[r] = stage[r] /\ tries'[r] = tries[r] + 1
      <4>1. /\ stage[r] < s \/ (stage[r] = s /\ tries[r] < p[2])
            /\ s = stage[r] => p[2] # tries[r] + 1
        BY <1>1, <2>1, <3>1, <3>2
      <4>2. QED  BY <2>1, <2>2, <4>1 DEF PostsDue
    <3>3. CASE stage'[r] = stage[r] + 1 /\ tries'[r] = 0
      <4>1. stage[r] < s
        BY <1>1, <3>1, <3>3
      <4>2. s # stage[r]
        BY <1>1, <4>1
      <4>3. QED  BY <2>1, <2>2, <4>1, <4>2 DEF PostsDue
    <3>4. QED  BY <3>1, <3>2, <3>3
  <2>3. CASE p[1] # r
    BY <1>2, <2>1, <2>3 DEF PostsDue
  <2>4. QED  BY <2>2, <2>3
<1>3. CASE s = stage[r]
  <2>1. used \in PostsDue(s)
    <3>1. tries[r] + 1 \in 1 .. Tries /\ tries[r] < tries[r] + 1  BY <1>1
    <3>2. QED  BY <1>3, <3>1 DEF PostsDue
  <2>2. /\ IsFiniteSet(PostsDue(s) \ {used})
        /\ Cardinality(PostsDue(s) \ {used}) = Cardinality(PostsDue(s)) - 1
    BY <2>1, BudgetTyped, FS_RemoveElement
  <2>3. PostsDue(s)' \in SUBSET (PostsDue(s) \ {used})
    BY <1>2, <1>3
  <2>4. /\ Cardinality(PostsDue(s)') <= Cardinality(PostsDue(s) \ {used})
        /\ Cardinality(PostsDue(s)') \in Nat
    BY <2>2, <2>3, FS_Subset, FS_CardinalityType
  <2>5. effects'[s] = effects[s] + done
    BY <1>1, <1>3
  <2>6. QED  BY <2>2, <2>4, <2>5, BudgetTyped
<1>4. CASE s # stage[r]
  <2>1. PostsDue(s)' \in SUBSET PostsDue(s)
    BY <1>2
  <2>2. /\ Cardinality(PostsDue(s)') <= Cardinality(PostsDue(s))
        /\ Cardinality(PostsDue(s)') \in Nat
    BY <2>1, BudgetTyped, FS_Subset, FS_CardinalityType
  <2>3. effects'[s] = effects[s]
    BY <1>1, <1>4
  <2>4. QED  BY <2>2, <2>3, BudgetTyped
<1>5. QED  BY <1>3, <1>4

\* No step leaves more evaluations than it pays for.
LEMMA NextBudgeted == IInv /\ PostBudget /\ [Next]_vars => PostBudget'
<1> SUFFICES ASSUME IInv, PostBudget, [Next]_vars PROVE PostBudget'  OBVIOUS
<1>1. TypeOK  BY DEF IInv
<1>2. ASSUME NEW r \in Requests, ReserveNew(r) \/ TakeOver(r) PROVE PostBudget'
  BY <1>2, BeginBudgeted DEF ReserveNew, TakeOver
<1>3. ASSUME NEW r \in Requests, Replay(r) PROVE PostBudget'
  BY <1>3, BudgetKept DEF Replay, request
<1>4. ASSUME NEW r \in Requests, PostAnswered(r) PROVE PostBudget'
  <2>1. /\ pc[r] = "posting" /\ execs' = execs
        /\ effects' = [effects EXCEPT ![stage[r]] = effects[stage[r]] + 1]
    BY <1>4 DEF PostAnswered
  <2>2. \A q \in Requests \ {r} : pc'[q] = pc[q] /\ stage'[q] = stage[q] /\ tries'[q] = tries[q]
    BY <1>1, <1>4 DEF PostAnswered, Goto, TypeOK
  <2>3. pc'[r] = "posting" => stage'[r] = stage[r] + 1 /\ tries'[r] = 0
    BY <1>1, <1>4 DEF PostAnswered, Goto, TypeOK
  <2>4. QED  BY <2>1, <2>2, <2>3, TryUsed
<1>5. ASSUME NEW r \in Requests, PostTryFails(r) PROVE PostBudget'
  <2>1. PICK done \in {0, 1} :
          effects' = [effects EXCEPT ![stage[r]] = effects[stage[r]] + done]
    BY <1>5 DEF PostTryFails
  <2>2. pc[r] = "posting" /\ execs' = execs /\ stage' = stage
    BY <1>5 DEF PostTryFails
  <2>3. /\ \A q \in Requests \ {r} : pc'[q] = pc[q] /\ tries'[q] = tries[q]
        /\ pc'[r] = "posting" => tries'[r] = tries[r] + 1
    BY <1>1, <1>5 DEF PostTryFails, GiveUp, TryAgain, Goto, TypeOK
  <2>4. QED  BY <2>1, <2>2, <2>3, TryUsed
<1>6. ASSUME NEW r \in Requests,
             PersistResponse(r) \/ PersistFailure(r) \/ PersistUnanswered(r) \/ Crash(r)
      PROVE  PostBudget'
  <2>1. UNCHANGED <<effects, execs>> /\ Leave(r)
    BY <1>6 DEF PersistResponse, PersistFailure, PersistUnanswered, Crash
  <2>2. \A q \in Requests : pc'[q] = "posting" =>
          pc[q] = "posting" /\ stage'[q] = stage[q] /\ tries'[q] = tries[q]
    BY <1>1, <2>1 DEF Leave, Goto, TypeOK
  <2>3. QED  BY <2>1, <2>2, BudgetKept
<1>7. CASE LockLapses \/ LockOverrun \/ ReapplyMigration \/ UNCHANGED vars
  BY <1>7, BudgetKept DEF LockLapses, LockOverrun, ReapplyMigration, vars, request
<1>8. QED
  BY <1>2, <1>3, <1>4, <1>5, <1>6, <1>7 DEF Next, Reserve, Work

\* However requests take the key over from each other and posts are repeated, a key
\* costs one execution more than its lock grew old, and each execution leaves at most
\* as many evaluations in a service as a post has tries.
THEOREM DuplicatesBoundedHolds == Spec => []DuplicatesBounded
<1>1. Init => PostBudget
  <2> SUFFICES ASSUME Init, NEW s \in 1..Stages
               PROVE  effects[s] + Cardinality(PostsDue(s)) <= Tries * execs
    BY DEF PostBudget
  <2>1. PostsDue(s) = {} /\ effects[s] = 0 /\ execs = 0
    BY DEF Init, PostsDue
  <2>2. QED  BY <2>1, FS_EmptySet, GatewayAssumption
<1>2. IInv /\ PostBudget => DuplicatesBounded
  BY BudgetTyped DEF DuplicatesBounded, IInv, ExecutionsCounted
<1>3. QED  BY <1>1, <1>2, NextBudgeted, IInvHolds, PTL DEF Spec
-----------------------------------------------------------------------------
(* One payload per key *)

\* A key that exists has the payload of some request, and whoever executes under
\* it has that payload: no other request begins, and so none can be stored.
OnePayload ==
  /\ status # "absent" => hash \in {HashOf[r] : r \in Requests}
  /\ \A r \in Executing : HashOf[r] = hash

\* request_hash: whichever requests reserve, take over and settle the key, in any
\* order, the stored outcome is one of the payload the key was reserved with, and
\* a key that is pending always has a request that may take it over.
THEOREM OnePayloadHolds == Spec => []OnePayload
<1>1. Init => OnePayload
  BY DEF Init, OnePayload, Executing
<1>2. IInv /\ OnePayload /\ [Next]_vars => OnePayload'
  <2> SUFFICES ASSUME IInv, OnePayload, [Next]_vars PROVE OnePayload'
    OBVIOUS
  <2>1. TypeOK /\ (status = "absent" => Executing = {})
    BY DEF IInv, ExecutingReserved
  <2>2. ASSUME NEW r \in Requests, ReserveNew(r) PROVE OnePayload'
    <3>1. hash' = HashOf[r] /\ Executing = {}
      BY <2>1, <2>2 DEF ReserveNew
    <3>2. Executing' \subseteq {r}
      BY <2>1, <2>2, <3>1 DEF ReserveNew, BeginExecution, Goto, Executing, TypeOK
    <3>3. QED
      BY <3>1, <3>2 DEF OnePayload
  <2>3. ASSUME NEW r \in Requests, TakeOver(r) PROVE OnePayload'
    <3>1. hash' = hash /\ hash = HashOf[r] /\ Executing' \subseteq Executing \union {r}
      BY <2>1, <2>3 DEF TakeOver, BeginExecution, Goto, keyRow, Executing, TypeOK
    <3>2. status' = status
      BY <2>3 DEF TakeOver, keyRow
    <3>3. QED
      BY <3>1, <3>2 DEF OnePayload
  <2>4. CASE hash' = hash /\ (status' # "absent" => status # "absent") /\ Executing' \subseteq Executing
    BY <2>4 DEF OnePayload
  <2>5. ASSUME NEW r \in Requests,
               \/ Replay(r) \/ PostAnswered(r) \/ PostTryFails(r) \/ PersistResponse(r)
               \/ PersistFailure(r) \/ PersistUnanswered(r) \/ Crash(r)
        PROVE  hash' = hash /\ (status' # "absent" => status # "absent")
               /\ Executing' \subseteq Executing
    <3>1. hash' = hash
      BY <2>5 DEF Replay, PostAnswered, PostTryFails, PersistResponse, PersistFailure,
                  PersistUnanswered, Crash, keyRow
    <3>2. status' # "absent" => status # "absent"
      BY <2>5 DEF Replay, PostAnswered, PostTryFails, PersistResponse, PersistFailure,
                  PersistUnanswered, Crash, keyRow, Settle
    <3>3. Executing' \subseteq Executing
      <4>1. CASE Replay(r)
        BY <4>1 DEF Replay, request, Executing
      <4>2. CASE ~ Replay(r)
        <5>1. pc[r] # "idle"
          BY <2>5, <4>2 DEF PostAnswered, PostTryFails, PersistResponse, PersistFailure,
                            PersistUnanswered, Crash
        <5>2. \A q \in Requests \ {r} : pc'[q] = pc[q]
          BY <2>1, <2>5, <4>2
             DEF PostAnswered, PostTryFails, GiveUp, TryAgain, PersistResponse,
                 PersistFailure, PersistUnanswered, Crash, Leave, Goto, TypeOK
        <5>3. QED
          BY <5>1, <5>2 DEF Executing
      <4>3. QED
        BY <4>1, <4>2
    <3>4. QED
      BY <3>1, <3>2, <3>3
  <2>6. CASE LockLapses \/ LockOverrun \/ ReapplyMigration \/ UNCHANGED vars
    <3>1. /\ hash' = hash /\ pc' = pc
          /\ status' # "absent" => status # "absent"
      BY <2>6 DEF LockLapses, LockOverrun, ReapplyMigration, vars, keyRow, request
    <3>2. QED
      BY <3>1 DEF OnePayload, Executing
  <2>7. QED
    BY <2>2, <2>3, <2>4, <2>5, <2>6 DEF Next, Reserve, Work
<1>3. QED
  BY <1>1, <1>2, IInvHolds, PTL DEF Spec

-----------------------------------------------------------------------------
(***************************************************************************)
(* The row of a key is a write-once cell.                                  *)
(***************************************************************************)
\* The stored response of a key is given once, and is what clients were promised:
\* the store that the artifact store is, with one name.
Cell == INSTANCE WriteOnceStore WITH
  Names <- {"response_payload"},
  Payloads <- Nat \ {0},
  None <- 0,
  content <- [name \in {"response_payload"} |-> IF status = "completed" THEN answer ELSE 0],
  promised <- {<<"response_payload", x>> : x \in given}

\* What a request executes has a number, and so has what is stored.
ExecutionsNumbered ==
  /\ \A r \in Requests : pc[r] # "idle" => exec[r] # 0
  /\ status = "completed" => answer # 0

\* The answer of r's execution goes into the row, and what clients get is what it
\* holds then.
Answers(r) ==
  /\ status = "pending" /\ status' = "completed" /\ answer' = exec[r] /\ exec[r] # 0
  /\ given' = given \/ given' = given \union {exec[r]}

\* What a step does to the row and to what clients have got.
LEMMA RowMoves ==
  ASSUME IInv, ExecutionsNumbered, [Next]_vars
  PROVE  \/ \E r \in Requests : Answers(r)
         \/ /\ status' = "completed" <=> status = "completed"
            /\ status = "completed" => answer' = answer
            /\ given' = given \/ (status = "completed" /\ given' = given \union {answer})
<1>1. ASSUME NEW r \in Requests, pc[r] # "idle" PROVE exec[r] # 0
  BY <1>1 DEF ExecutionsNumbered
<1>2. ASSUME NEW r \in Requests, ReserveNew(r) \/ TakeOver(r)
      PROVE  status # "completed" /\ status' # "completed" /\ given' = given
  BY <1>2 DEF ReserveNew, TakeOver, keyRow
<1>3. ASSUME NEW r \in Requests, Replay(r)
      PROVE  UNCHANGED <<status, answer>> /\ status = "completed" /\ given' = given \union {answer}
  BY <1>3 DEF Replay, keyRow
<1>4. ASSUME NEW r \in Requests, PostAnswered(r) \/ PostTryFails(r) \/ Crash(r)
      PROVE  UNCHANGED <<status, answer, given>>
  BY <1>4 DEF PostAnswered, PostTryFails, Crash, keyRow
<1>5. ASSUME NEW r \in Requests, PersistResponse(r)
      PROVE  Answers(r) \/ UNCHANGED <<status, answer, given>>
  <2>1. exec[r] # 0
    BY <1>1, <1>5 DEF PersistResponse
  <2>2. QED
    BY <1>5, <2>1 DEF PersistResponse, Settle, Answers
<1>6. ASSUME NEW r \in Requests, PersistFailure(r)
      PROVE  /\ given' = given
             /\ UNCHANGED <<status, answer>> \/ (status = "pending" /\ status' = "failed")
  BY <1>6 DEF PersistFailure, Settle
<1>7. ASSUME NEW r \in Requests, PersistUnanswered(r)
      PROVE  \/ Answers(r)
             \/ UNCHANGED <<status, answer, given>>
             \/ status = "pending" /\ status' = "failed" /\ given' = given
  <2>1. exec[r] # 0
    BY <1>1, <1>7 DEF PersistUnanswered
  <2>2. QED
    BY <1>7, <2>1 DEF PersistUnanswered, Settle, Answers
<1>8. CASE LockLapses \/ LockOverrun \/ UNCHANGED vars
  BY <1>8 DEF LockLapses, LockOverrun, vars, keyRow
<1>9. CASE ReapplyMigration
  BY <1>9 DEF ReapplyMigration
<1>10. QED
  BY <1>2, <1>3, <1>4, <1>5, <1>6, <1>7, <1>8, <1>9 DEF Next, Reserve, Work

LEMMA StepNumbered == IInv /\ ExecutionsNumbered /\ [Next]_vars => ExecutionsNumbered'
<1> SUFFICES ASSUME IInv, ExecutionsNumbered, [Next]_vars PROVE ExecutionsNumbered'
  OBVIOUS
<1>0. TypeOK
  BY DEF IInv
<1>1. status' = "completed" => answer' # 0
  BY RowMoves DEF Answers, ExecutionsNumbered
<1>2. ASSUME NEW r \in Requests, pc'[r] # "idle" PROVE exec'[r] # 0
  <2>1. ASSUME NEW q \in Requests, ReserveNew(q) \/ TakeOver(q) PROVE exec'[r] # 0
    <3>1. BeginExecution(q) /\ execs \in Nat
      BY <1>0, <2>1 DEF ReserveNew, TakeOver, TypeOK
    <3>2. CASE r = q
      <4>1. exec'[r] = execs + 1
        BY <1>0, <3>1, <3>2 DEF BeginExecution, TypeOK
      <4>2. QED
        BY <3>1, <4>1
    <3>3. CASE r # q
      BY <1>0, <1>2, <3>1, <3>3 DEF BeginExecution, Goto, TypeOK, ExecutionsNumbered
    <3>4. QED
      BY <3>2, <3>3
  <2>2. ASSUME NEW q \in Requests, PostAnswered(q) \/ PostTryFails(q) PROVE exec'[r] # 0
    <3>1. exec' = exec /\ pc[q] = "posting" /\ \A p \in Requests \ {q} : pc'[p] = pc[p]
      BY <1>0, <2>2 DEF PostAnswered, PostTryFails, GiveUp, TryAgain, Goto, TypeOK
    <3>2. QED
      BY <1>2, <3>1 DEF ExecutionsNumbered
  <2>3. ASSUME NEW q \in Requests,
               PersistResponse(q) \/ PersistFailure(q) \/ PersistUnanswered(q) \/ Crash(q)
        PROVE  exec'[r] # 0
    <3>1. Leave(q)
      BY <2>3 DEF PersistResponse, PersistFailure, PersistUnanswered, Crash
    <3>2. QED
      BY <1>0, <1>2, <3>1 DEF Leave, Goto, TypeOK, ExecutionsNumbered
  <2>4. CASE \/ \E q \in Requests : Replay(q)
             \/ LockLapses \/ LockOverrun \/ ReapplyMigration \/ UNCHANGED vars
    BY <1>2, <2>4 DEF Replay, LockLapses, LockOverrun, ReapplyMigration, vars, request,
                      ExecutionsNumbered
  <2>5. QED
    BY <2>1, <2>2, <2>3, <2>4 DEF Next, Reserve, Work
<1>3. QED
  BY <1>1, <1>2 DEF ExecutionsNumbered

\* The stored response of a key is given once and is what every 200 answer carries,
\* as the artifact store keeps what it was given: takeovers, late answers, expired
\* locks and migrations that run again are steps of the write-once cell or none.
THEOREM KeyIsWriteOnce == Spec => Cell!Spec
<1> DEFINE Whole == IF status = "completed" THEN answer ELSE 0
           Row == [name \in {"response_payload"} |-> Whole]
           Told == {<<"response_payload", x>> : x \in given}
<1>1. Init => Cell!Init /\ ExecutionsNumbered
  BY DEF Init, Cell!Init, ExecutionsNumbered
<1>2. IInv /\ ExecutionsNumbered /\ [Next]_vars => [Cell!Next]_(Cell!vars)
  <2> SUFFICES ASSUME IInv, ExecutionsNumbered, [Next]_vars
               PROVE  Cell!Next \/ UNCHANGED Cell!vars
    OBVIOUS
  <2>0. TypeOK
    BY DEF IInv
  <2>1. ASSUME NEW r \in Requests, Answers(r) PROVE Cell!Next
    <3>1. PICK n \in {"response_payload"}, x \in Nat \ {0} : n = "response_payload" /\ x = exec[r]
      BY <2>0, <2>1 DEF Answers, TypeOK
    <3>2. Row[n] = 0 /\ Row' = [Row EXCEPT ![n] = x]
      BY <2>1, <3>1 DEF Answers
    <3>3. Told' = Told \/ Told' = Told \union {<<n, x>>}
      BY <2>1, <3>1 DEF Answers
    <3>4. Cell!Put(n, x) \/ Cell!PutAndPromise(n, x)
      BY <3>2, <3>3 DEF Cell!Put, Cell!PutAndPromise
    <3>5. QED
      BY <3>4 DEF Cell!Next
  <2>2. ASSUME status' = "completed" <=> status = "completed",
               status = "completed" => answer' = answer,
               given' = given
        PROVE  UNCHANGED Cell!vars
    BY <2>2 DEF Cell!vars
  <2>3. ASSUME status' = "completed", status = "completed", answer' = answer,
               given' = given \union {answer}
        PROVE  Cell!Next
    <3>1. PICK n \in {"response_payload"}, x \in Nat \ {0} : n = "response_payload" /\ x = answer
      BY <2>0, <2>3 DEF ExecutionsNumbered, TypeOK
    <3>2. Row[n] = x /\ Row' = Row /\ Told' = Told \union {<<n, x>>}
      BY <2>3, <3>1
    <3>3. Cell!Promise(n, x)
      BY <3>2 DEF Cell!Promise
    <3>4. QED
      BY <3>3 DEF Cell!Next
  <2>4. QED
    BY <2>1, <2>2, <2>3, RowMoves
<1>3. QED
  BY <1>1, <1>2, StepNumbered, IInvHolds, PTL DEF Spec, Cell!Spec
=============================================================================
