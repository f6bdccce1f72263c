-------------------------- MODULE OutboxRelayProofs --------------------------
(***************************************************************************)
(* Proofs about OutboxRelay for every number of rows, workers and tokens,  *)
(* every batch size and retry limit, and every mix of readable and         *)
(* unreadable rows.                                                        *)
(***************************************************************************)
EXTENDS OutboxRelay, FiniteSetTheorems, TLAPS

-----------------------------------------------------------------------------
(* Facts about the helpers *)

\* The claim query selects rows it was given, whatever the limit.
LEMMA OldestSubset == ASSUME NEW S, NEW n PROVE Oldest(S, n) \subseteq S
BY DEF Oldest

\* The rows before each row of a table.
Before(S, e) == {d \in S : d < e}

\* An older row has fewer rows before it.
LEMMA BeforeGrows ==
  ASSUME NEW S \in SUBSET Nat, IsFiniteSet(S), NEW d \in S, NEW e \in S, d < e
  PROVE  /\ Before(S, d) \in SUBSET Before(S, e) /\ d \notin Before(S, d)
         /\ Cardinality(Before(S, d)) \in Nat /\ Cardinality(Before(S, e)) \in Nat
         /\ Cardinality(Before(S, d)) < Cardinality(Before(S, e))
<1>1. Before(S, e) \in SUBSET S /\ Before(S, d) \in SUBSET Before(S, e)
  <2>1. d \in Nat /\ e \in Nat /\ \A x \in S : x \in Nat
    OBVIOUS
  <2>2. \A x \in S : x < d => x < e
    BY <2>1
  <2>3. QED
    BY <2>2 DEF Before
<1>2. d \in Before(S, e) /\ d \notin Before(S, d)
  BY DEF Before
<1>3. IsFiniteSet(Before(S, e)) /\ IsFiniteSet(Before(S, d))
  BY <1>1, FS_Subset
<1>4. Cardinality(Before(S, d)) \in Nat /\ Cardinality(Before(S, e)) \in Nat
  BY <1>3, FS_CardinalityType
<1>5. /\ Cardinality(Before(S, d)) <= Cardinality(Before(S, e))
      /\ Cardinality(Before(S, e)) = Cardinality(Before(S, d)) => Before(S, e) = Before(S, d)
  BY <1>1, <1>3, FS_Subset
<1>6. QED
  BY <1>1, <1>2, <1>4, <1>5

\* A claim takes no row past an older one it could have had.
LEMMA OldestFirst ==
  ASSUME NEW S \in SUBSET Nat, IsFiniteSet(S), NEW n \in Nat,
         NEW e \in Oldest(S, n), NEW d \in S \ Oldest(S, n)
  PROVE  e < d
<1>1. e \in S /\ Cardinality(Before(S, e)) < n /\ ~ (Cardinality(Before(S, d)) < n)
  BY DEF Oldest, Before
<1>2. CASE d < e
  <2>1. /\ Cardinality(Before(S, d)) \in Nat /\ Cardinality(Before(S, e)) \in Nat
        /\ Cardinality(Before(S, d)) < Cardinality(Before(S, e))
    BY <1>1, <1>2, BeforeGrows
  <2>2. QED
    BY <1>1, <2>1
<1>3. d # e
  BY <1>1
<1>4. QED
  BY <1>1, <1>2, <1>3

\* The LIMIT: the number of rows before each tells the rows of a batch apart.
LEMMA OldestBounded ==
  ASSUME NEW S \in SUBSET Nat, IsFiniteSet(S), NEW n \in Nat
  PROVE  IsFiniteSet(Oldest(S, n)) /\ Cardinality(Oldest(S, n)) <= n
<1> DEFINE got == Oldest(S, n)
           rank == [e \in got |-> Cardinality(Before(S, e))]
<1>1. ASSUME NEW e \in got
      PROVE  e \in S /\ Cardinality(Before(S, e)) \in 0..(n - 1)
  <2>1. e \in S /\ Cardinality(Before(S, e)) < n
    BY DEF Oldest, Before
  <2>2. Before(S, e) \in SUBSET S
    BY DEF Before
  <2>3. IsFiniteSet(Before(S, e)) /\ Cardinality(Before(S, e)) \in Nat
    BY <2>2, FS_Subset, FS_CardinalityType
  <2>4. QED
    BY <2>1, <2>3
<1>2. ASSUME NEW d \in got, NEW e \in got, d # e
      PROVE  Cardinality(Before(S, d)) # Cardinality(Before(S, e))
  <2>1. d \in S /\ e \in S
    BY <1>1
  <2>2. \A a, b \in S : a < b => Cardinality(Before(S, a)) # Cardinality(Before(S, b))
    BY BeforeGrows
  <2>3. d < e \/ e < d
    BY <1>2, <2>1
  <2>4. QED
    BY <2>1, <2>2, <2>3
<1>3. rank \in [got -> 0..(n - 1)]
  BY <1>1
<1>4. rank \in Injection(got, 0..(n - 1))
  BY <1>2, <1>3 DEF Injection, IsInjective
<1>5. IsFiniteSet(0..(n - 1)) /\ Cardinality(0..(n - 1)) = n
  BY FS_Interval
<1>6. QED
  BY <1>4, <1>5, FS_Injection

\* A claim takes a row whenever there is one to take: some row has none before.
LEMMA OldestNonempty ==
  ASSUME NEW S \in SUBSET Nat, IsFiniteSet(S), S # {}, NEW n \in Nat \ {0}
  PROVE  Oldest(S, n) # {}
<1> DEFINE befores == {Before(S, e) : e \in S}
<1>1. befores \subseteq FiniteSubsetsOf(S) /\ befores # {}
  <2>1. \A e \in S : Before(S, e) \in SUBSET S
    BY DEF Before
  <2>2. \A e \in S : Before(S, e) \in FiniteSubsetsOf(S)
    BY <2>1, FS_Subset DEF FiniteSubsetsOf
  <2>3. QED
    BY <2>2
<1>2. PICK B \in befores : \A C \in befores : ~ (<<C, B>> \in StrictSubsetOrdering(S))
  BY <1>1, FS_StrictSubsetOrderingWellFounded, WFMin
<1>3. PICK e \in S : B = Before(S, e)
  OBVIOUS
<1>4. ASSUME NEW d \in Before(S, e) PROVE FALSE
  <2>1. d \in S /\ d < e /\ d \in Nat /\ e \in Nat
    BY DEF Before
  <2>2. Before(S, d) \in SUBSET Before(S, e) /\ d \notin Before(S, d)
    BY <2>1, BeforeGrows
  <2>3. <<Before(S, d), B>> \in StrictSubsetOrdering(S)
    BY <1>3, <2>1, <2>2 DEF StrictSubsetOrdering, Before
  <2>4. QED
    BY <1>2, <2>1, <2>3
<1>5. Cardinality({d \in S : d < e}) = 0
  BY <1>4, FS_EmptySet DEF Before
<1>6. QED
  BY <1>5 DEF Oldest
\* What is claimed is stored, unsettled and not under a running lease.
LEMMA ClaimedRows ==
  ASSUME NEW e \in Oldest(Claimable, BatchSize)
  PROVE  /\ e \in stored /\ e \notin published /\ e \notin deadLettered
         /\ claimToken[e] \in lapsed \/ claimToken[e] = NoToken
BY OldestSubset DEF Claimable, Settled

\* A fresh token is a token that no row and no worker carries.
LEMMA FreshTokenUnused ==
  ASSUME FreshTokens # {}
  PROVE  /\ FreshToken \in Tokens
         /\ \A e \in Events : claimToken[e] # FreshToken
         /\ \A w \in Workers : token[w] # FreshToken
<1>1. FreshToken \in FreshTokens
  BY DEF FreshToken
<1>2. QED
  BY <1>1 DEF FreshTokens, UsedTokens

-----------------------------------------------------------------------------
(* Each step preserves the inductive invariant *)

\* A commit adds an unclaimed, unsettled row.
LEMMA EnqueueStep ==
  ASSUME IInv, NEW e \in Events, Enqueue(e)
  PROVE  IInv'
<1> USE DEF IInv, Enqueue, worker, broker
<1>1. TypeOK'
  BY DEF TypeOK, Fault
<1>2. LocalState'
  BY DEF LocalState
<1>3. OnlyStored'
  BY DEF OnlyStored, Settled, AtWork
<1>4. SettledOnce' /\ PublishedReachedBroker' /\ DeadLetteredCalled'
  BY DEF SettledOnce, Settled, PublishedReachedBroker, DeadLetteredCalled
<1>5. TokensTellWorkersApart'
  BY DEF TokensTellWorkersApart
<1>6. LeaseProtectsBatch'
  BY DEF LeaseProtectsBatch, AtWork, Settled
<1>7. QED
  BY <1>1, <1>2, <1>3, <1>4, <1>5, <1>6

\* What a claim does to the table, whether or not the batch can be read: rows
\* that another worker still has before it lose only a lapsed claim.
LEMMA ClaimRowsStep ==
  ASSUME IInv, ClaimRows(Oldest(Claimable, BatchSize), FreshToken)
  PROVE  /\ stored' \in SUBSET Events /\ published' \in SUBSET Events
         /\ deadLettered' \in SUBSET Events
         /\ claimToken' \in [Events -> Tokens \union {NoToken}]
         /\ lapsed' \in SUBSET Tokens
         /\ attempts' \in [Events -> Nat]
         /\ calls' \in [Events -> Nat] /\ copies' \in [Events -> Nat]
         /\ Oldest(Claimable, BatchSize) \in SUBSET Events
         /\ FreshToken \in Tokens
         /\ FreshToken \notin lapsed'
         /\ \A w \in Workers : token[w] # FreshToken
         /\ SettledOnce' /\ PublishedReachedBroker' /\ DeadLetteredCalled'
         /\ \A w \in Workers : \A e \in AtWork(w) :
              token[w] \in lapsed' \/ (claimToken'[e] = token[w] /\ e \notin Settled')
<1> USE DEF IInv
<1> DEFINE got == Oldest(Claimable, BatchSize)
<1>1. /\ FreshToken \in Tokens
      /\ \A w \in Workers : token[w] # FreshToken
  BY FreshTokenUnused DEF ClaimRows
<1>2. got \in SUBSET Events
  BY ClaimedRows DEF TypeOK
<1>3. attempts' \in [Events -> Nat]
  BY DEF TypeOK, ClaimRows, Counted
<1>4. /\ claimToken' \in [Events -> Tokens \union {NoToken}]
      /\ lapsed' = lapsed \ {FreshToken}
      /\ UNCHANGED <<stored, published, deadLettered, calls, copies>>
  BY <1>1 DEF TypeOK, ClaimRows, broker
<1>5. SettledOnce'
  <2>1. \A e \in Settled : e \notin got
    BY ClaimedRows DEF Settled
  <2>2. \A e \in Settled : claimToken'[e] = claimToken[e]
    BY <2>1 DEF ClaimRows, TypeOK, Settled
  <2>3. QED
    BY <1>4, <2>2 DEF SettledOnce, Settled
<1>6. PublishedReachedBroker' /\ DeadLetteredCalled'
  BY <1>4 DEF PublishedReachedBroker, DeadLetteredCalled
<1>7. ASSUME NEW w \in Workers, NEW e \in AtWork(w), token[w] \notin lapsed'
      PROVE  claimToken'[e] = token[w] /\ e \notin Settled'
  <2>1. token[w] \notin lapsed
    BY <1>1, <1>4, <1>7
  <2>2. claimToken[e] = token[w] /\ e \notin Settled
    BY <1>7, <2>1 DEF LeaseProtectsBatch
  <2>3. token[w] # NoToken
    BY <1>7 DEF LocalState, AtWork, TypeOK
  <2>4. e \notin got
    BY <2>1, <2>2, <2>3, ClaimedRows
  <2>5. e \in Events
    BY <1>7 DEF AtWork, TypeOK
  <2>6. claimToken'[e] = claimToken[e]
    BY <2>4, <2>5 DEF ClaimRows
  <2>7. QED
    BY <1>4, <2>2, <2>6 DEF Settled
<1>8. QED
  BY <1>1, <1>2, <1>3, <1>4, <1>5, <1>6, <1>7 DEF TypeOK

\* The claimed batch is the worker's own, under a lease that has just begun.
LEMMA ClaimStep ==
  ASSUME IInv, NEW w \in Workers, Claim(w)
  PROVE  IInv'
<1> DEFINE got == Oldest(Claimable, BatchSize)
<1> USE OutboxAssumption DEF IInv
<1>1. ClaimRows(got, FreshToken)
  BY DEF Claim
<1>2. /\ pc[w] = "idle" /\ pc' = [pc EXCEPT ![w] = "loop"]
      /\ batch' = [batch EXCEPT ![w] = got]
      /\ token' = [token EXCEPT ![w] = FreshToken]
      /\ UNCHANGED <<current, tries>>
  BY DEF Claim, StartsCycle
<1>3. TypeOK'
  <2>1. faults' \in Nat
    BY DEF Claim, StartsCycle, Fault, TypeOK
  <2>2. QED
    BY <1>1, <1>2, <2>1, ClaimRowsStep DEF TypeOK, PCs
<1>4. UNCHANGED <<stored, published, deadLettered, calls, copies>>
  BY <1>1 DEF ClaimRows, broker
<1>5. FreshToken \in Tokens /\ got \subseteq Events /\ FreshToken \notin lapsed'
  BY <1>1, ClaimRowsStep
<1>6. current[w] \notin Events /\ current[w] = NoEvent
  BY <1>2 DEF LocalState, TypeOK
<1>7. LocalState'
  BY <1>2, <1>4, <1>5, <1>6 DEF LocalState, TypeOK
<1>8. got \subseteq stored /\ got \intersect Settled = {}
  BY ClaimedRows DEF Settled
<1>9. \A v \in Workers : AtWork(v)' = IF v = w THEN got ELSE AtWork(v)
  BY <1>2, <1>6 DEF AtWork, TypeOK
<1>10. OnlyStored'
  BY <1>4, <1>8, <1>9 DEF OnlyStored, Settled
<1>11. SettledOnce' /\ PublishedReachedBroker' /\ DeadLetteredCalled'
  BY <1>1, ClaimRowsStep
<1>12. TokensTellWorkersApart'
  BY <1>1, <1>2, ClaimRowsStep DEF TokensTellWorkersApart, TypeOK
<1>13. LeaseProtectsBatch'
  <2>1. \A e \in got : claimToken'[e] = FreshToken /\ e \notin Settled'
    BY <1>1, <1>4, <1>5, <1>8 DEF ClaimRows, Settled
  <2>2. ASSUME NEW v \in Workers, NEW e \in AtWork(v)'
        PROVE  token'[v] \in lapsed' \/ (claimToken'[e] = token'[v] /\ e \notin Settled')
    <3>1. CASE v = w
      BY <1>2, <1>9, <2>1, <2>2, <3>1 DEF TypeOK
    <3>2. CASE v # w
      <4>1. token'[v] = token[v] /\ e \in AtWork(v)
        BY <1>2, <1>9, <2>2, <3>2 DEF TypeOK
      <4>2. QED
        BY <1>1, <4>1, ClaimRowsStep
    <3>3. QED
      BY <3>1, <3>2
  <2>3. QED
    BY <2>2 DEF LeaseProtectsBatch
<1>14. QED
  BY <1>3, <1>7, <1>10, <1>11, <1>12, <1>13

\* An unreadable batch leaves rows claimed by a token no worker carries.
LEMMA ClaimUnreadableStep ==
  ASSUME IInv, NEW w \in Workers, ClaimUnreadable(w)
  PROVE  IInv'
<1> DEFINE got == Oldest(Claimable, BatchSize)
<1> USE OutboxAssumption DEF IInv
<1>1. ClaimRows(got, FreshToken)
  BY DEF ClaimUnreadable
<1>2. /\ pc[w] = "idle" /\ pc' = [pc EXCEPT ![w] = "down"]
      /\ UNCHANGED <<batch, current, token, tries>>
  BY DEF ClaimUnreadable, StartsCycle
<1>3. TypeOK'
  <2>1. faults' \in Nat
    BY DEF ClaimUnreadable, StartsCycle, Fault, TypeOK
  <2>2. QED
    BY <1>1, <1>2, <2>1, ClaimRowsStep DEF TypeOK, PCs
<1>4. UNCHANGED <<stored, published, deadLettered, calls, copies>>
  BY <1>1 DEF ClaimRows, broker
<1>5. LocalState'
  BY <1>2, <1>4 DEF LocalState, TypeOK
<1>6. OnlyStored'
  BY <1>2, <1>4 DEF OnlyStored, Settled, AtWork
<1>7. SettledOnce' /\ PublishedReachedBroker' /\ DeadLetteredCalled'
  BY <1>1, ClaimRowsStep
<1>8. TokensTellWorkersApart'
  BY <1>2 DEF TokensTellWorkersApart
<1>9. LeaseProtectsBatch'
  BY <1>1, <1>2, ClaimRowsStep DEF LeaseProtectsBatch, AtWork
<1>10. QED
  BY <1>3, <1>5, <1>6, <1>7, <1>8, <1>9

\* The event a worker turns to was in its batch, and stays at work with it.
LEMMA BeginPublishStep ==
  ASSUME IInv, NEW w \in Workers, BeginPublish(w)
  PROVE  IInv'
<1> USE OutboxAssumption DEF IInv
<1>1. PICK e \in batch[w] :
        /\ current' = [current EXCEPT ![w] = e]
        /\ batch' = [batch EXCEPT ![w] = @ \ {e}]
        /\ calls' = [calls EXCEPT ![e] = @ + 1]
  BY DEF BeginPublish
<1>2. e \in Events
  BY DEF TypeOK
<1>3. /\ pc[w] = "loop" /\ pc' = [pc EXCEPT ![w] = "publish"]
      /\ tries' = [tries EXCEPT ![w] = 0]
      /\ UNCHANGED <<token, stored, published, deadLettered, claimToken, attempts,
                     lapsed, copies, faults>>
  BY DEF BeginPublish, row
<1>4. TypeOK'
  BY <1>1, <1>2, <1>3 DEF TypeOK, PCs
<1>5. calls'[e] > 0 /\ \A d \in Events : calls[d] > 0 => calls'[d] > 0
  BY <1>1, <1>2 DEF TypeOK
<1>6. LocalState'
  BY <1>1, <1>2, <1>3, <1>5 DEF LocalState, TypeOK
<1>7. \A v \in Workers : AtWork(v)' = AtWork(v)
  BY <1>1, <1>2, <1>3 DEF AtWork, LocalState, TypeOK
<1>8. OnlyStored'
  BY <1>3, <1>7 DEF OnlyStored, Settled
<1>9. SettledOnce' /\ PublishedReachedBroker'
  BY <1>3 DEF SettledOnce, Settled, PublishedReachedBroker
<1>10. DeadLetteredCalled'
  BY <1>3, <1>5 DEF DeadLetteredCalled, TypeOK
<1>11. TokensTellWorkersApart'
  BY <1>3 DEF TokensTellWorkersApart
<1>12. LeaseProtectsBatch'
  BY <1>3, <1>7 DEF LeaseProtectsBatch, Settled
<1>13. QED
  BY <1>4, <1>6, <1>8, <1>9, <1>10, <1>11, <1>12

\* Adding to one entry of a counter per event lowers none.
LEMMA CounterGrows ==
  ASSUME NEW f \in [Events -> Nat], NEW c \in Events, NEW k \in Nat
  PROVE  /\ [f EXCEPT ![c] = f[c] + k] \in [Events -> Nat]
         /\ \A e \in Events : [f EXCEPT ![c] = f[c] + k][e] >= f[e]
         /\ [f EXCEPT ![c] = f[c] + k][c] = f[c] + k
<1> DEFINE g == [f EXCEPT ![c] = f[c] + k]
<1>1. f[c] + k \in Nat /\ f[c] + k >= f[c]
  OBVIOUS
<1>2. g \in [Events -> Nat]
  BY <1>1
<1>3. g[c] = f[c] + k
  OBVIOUS
<1>4. \A e \in Events : g[e] >= f[e]
  BY <1>1
<1>5. QED
  BY <1>2, <1>3, <1>4

\* A try of the publish call adds copies and takes nothing else away.
LEMMA PublishStep ==
  ASSUME IInv, NEW w \in Workers,
         PublishConfirmed(w) \/ PublishTryFails(w) \/ PublishRefused(w)
  PROVE  IInv'
<1> USE OutboxAssumption DEF IInv
<1>1. /\ pc[w] = "publish"
      /\ current[w] \in Events
      /\ UNCHANGED <<batch, current, token, stored, published, deadLettered,
                     claimToken, attempts, lapsed, calls, faults>>
  BY DEF PublishConfirmed, PublishTryFails, PublishRefused, LocalState, row, broker
<1>2. copies' \in [Events -> Nat] /\ \A e \in Events : copies'[e] >= copies[e]
  <2>1. CASE PublishConfirmed(w)
    <3>1. copies' = [copies EXCEPT ![current[w]] = copies[current[w]] + 1]
      BY <2>1 DEF PublishConfirmed
    <3>2. QED
      BY <1>1, <3>1, CounterGrows DEF TypeOK
  <2>2. CASE PublishTryFails(w)
    <3>1. PICK taken \in {0, 1} :
            copies' = [copies EXCEPT ![current[w]] = copies[current[w]] + taken]
      BY <2>2 DEF PublishTryFails
    <3>2. taken \in Nat
      OBVIOUS
    <3>3. QED
      BY <1>1, <3>1, <3>2, CounterGrows DEF TypeOK
  <2>3. CASE PublishRefused(w)
    BY <2>3 DEF PublishRefused, broker, TypeOK
  <2>4. QED
    BY <2>1, <2>2, <2>3
<1>3. \A e \in Events : copies[e] > 0 => copies'[e] > 0
  BY <1>2 DEF TypeOK
<1>4. PICK where \in {"publish", "confirmed", "failed"} :
        /\ pc' = [pc EXCEPT ![w] = where]
        /\ where = "confirmed" => copies'[current[w]] > 0
  <2>1. CASE PublishConfirmed(w)
    <3>1. pc' = [pc EXCEPT ![w] = "confirmed"]
      BY <2>1 DEF PublishConfirmed
    <3>2. copies'[current[w]] = copies[current[w]] + 1
      BY <1>1, <2>1, CounterGrows DEF PublishConfirmed, TypeOK
    <3>3. copies[current[w]] \in Nat
      BY <1>1 DEF TypeOK
    <3>4. QED
      BY <3>1, <3>2, <3>3
  <2>2. CASE PublishTryFails(w)
    BY <2>2 DEF PublishTryFails, AfterTry
  <2>3. CASE PublishRefused(w)
    BY <2>3 DEF PublishRefused
  <2>4. QED
    BY <2>1, <2>2, <2>3
<1>5. tries' \in [Workers -> Nat]
  BY DEF PublishConfirmed, PublishTryFails, PublishRefused, TypeOK
<1>6. TypeOK'
  BY <1>1, <1>2, <1>4, <1>5 DEF TypeOK, PCs
<1>7. LocalState'
  <2>1. ASSUME NEW v \in Workers, pc'[v] = "confirmed"
        PROVE  copies'[current'[v]] > 0
    <3>1. CASE v = w
      BY <1>1, <1>4, <2>1, <3>1 DEF TypeOK
    <3>2. CASE v # w
      <4>1. pc[v] = "confirmed"
        BY <1>4, <2>1, <3>2 DEF TypeOK
      <4>2. QED
        BY <1>1, <1>3, <4>1 DEF LocalState
    <3>3. QED
      BY <3>1, <3>2
  <2>2. QED
    BY <1>1, <1>4, <2>1 DEF LocalState, TypeOK
<1>8. OnlyStored' /\ SettledOnce' /\ DeadLetteredCalled' /\ TokensTellWorkersApart'
  BY <1>1 DEF OnlyStored, SettledOnce, Settled, AtWork, DeadLetteredCalled,
              TokensTellWorkersApart
<1>9. PublishedReachedBroker'
  BY <1>1, <1>3 DEF PublishedReachedBroker, TypeOK
<1>10. LeaseProtectsBatch'
  BY <1>1 DEF LeaseProtectsBatch, Settled, AtWork
<1>11. QED
  BY <1>6, <1>7, <1>8, <1>9, <1>10

\* A worker that leaves carries no token and has no rows before it; the rest of
\* the workers are where they were.
LEMMA LeaveStep ==
  ASSUME IInv, NEW w \in Workers, NEW where \in {"idle", "down"}, Leave(w, where),
         UNCHANGED <<calls, copies>>
  PROVE  /\ pc' \in [Workers -> PCs] /\ batch' \in [Workers -> SUBSET Events]
         /\ current' \in [Workers -> Events \union {NoEvent}]
         /\ token' \in [Workers -> Tokens \union {NoToken}]
         /\ tries' \in [Workers -> Nat]
         /\ LocalState' /\ TokensTellWorkersApart'
         /\ AtWork(w)' = {}
         /\ \A v \in Workers \ {w} : AtWork(v)' = AtWork(v) /\ token'[v] = token[v]
<1> USE OutboxAssumption DEF IInv, Leave
<1>1. /\ pc' \in [Workers -> PCs] /\ batch' \in [Workers -> SUBSET Events]
      /\ current' \in [Workers -> Events \union {NoEvent}]
      /\ token' \in [Workers -> Tokens \union {NoToken}]
      /\ tries' \in [Workers -> Nat]
  BY DEF TypeOK, PCs
<1>2. LocalState'
  BY DEF LocalState, TypeOK
<1>3. TokensTellWorkersApart'
  BY DEF TokensTellWorkersApart, TypeOK
<1>4. /\ AtWork(w)' = {}
      /\ \A v \in Workers \ {w} : AtWork(v)' = AtWork(v) /\ token'[v] = token[v]
  BY DEF AtWork, TypeOK
<1>5. QED
  BY <1>1, <1>2, <1>3, <1>4

\* Leaving without touching the table: a lost claim, an aborted flush, a crash.
LEMMA DropStep ==
  ASSUME IInv, NEW w \in Workers, ClaimLost(w) \/ FlushAborts(w) \/ Crash(w)
  PROVE  IInv'
<1> USE DEF IInv
<1>1. /\ Leave(w, "down")
      /\ UNCHANGED <<stored, published, deadLettered, claimToken, attempts, lapsed,
                     calls, copies>>
  BY DEF ClaimLost, FlushAborts, Crash, row, broker
<1>2. faults' \in Nat
  BY DEF ClaimLost, FlushAborts, Crash, Fault, TypeOK
<1>3. TypeOK'
  BY <1>1, <1>2, LeaveStep DEF TypeOK
<1>4. LocalState' /\ TokensTellWorkersApart'
  BY <1>1, LeaveStep
<1>5. OnlyStored'
  BY <1>1, LeaveStep DEF OnlyStored, Settled
<1>6. SettledOnce' /\ PublishedReachedBroker' /\ DeadLetteredCalled'
  BY <1>1 DEF SettledOnce, Settled, PublishedReachedBroker, DeadLetteredCalled
<1>7. LeaseProtectsBatch'
  BY <1>1, LeaveStep DEF LeaseProtectsBatch, Settled
<1>8. QED
  BY <1>3, <1>4, <1>5, <1>6, <1>7

\* A worker that still holds its claim settles or releases the row.  Whoever else
\* has the row before it has lost its lease.
LEMMA MarkedRow ==
  ASSUME IInv, NEW w \in Workers, current[w] \in Events, HoldsClaim(w)
  PROVE  /\ token[w] \in Tokens
         /\ current[w] \in stored /\ current[w] \notin Settled
         /\ current[w] \notin batch[w]
         /\ \A v \in Workers \ {w} : current[w] \in AtWork(v) => token[v] \in lapsed
<1> USE OutboxAssumption DEF IInv
<1>1. current[w] \in AtWork(w)
  BY DEF AtWork
<1>2. token[w] \in Tokens /\ token[w] # NoToken
  BY DEF LocalState, TypeOK
<1>3. current[w] \in stored /\ current[w] \notin batch[w]
  BY <1>1 DEF OnlyStored, LocalState
<1>4. current[w] \notin Settled
  BY <1>2 DEF HoldsClaim, SettledOnce
<1>5. ASSUME NEW v \in Workers \ {w}, current[w] \in AtWork(v), token[v] \notin lapsed
      PROVE  FALSE
  <2>1. claimToken[current[w]] = token[v]
    BY <1>5 DEF LeaseProtectsBatch
  <2>2. token[v] = token[w]
    BY <2>1 DEF HoldsClaim
  <2>3. QED
    BY <1>2, <1>5, <2>2 DEF TokensTellWorkersApart
<1>6. QED
  BY <1>2, <1>3, <1>4, <1>5

\* mark_outbox_event_published, in the middle of a batch or at its end.
LEMMA MarkPublishedStep ==
  ASSUME IInv, NEW w \in Workers, MarkPublished(w)
  PROVE  IInv'
<1> DEFINE e == current[w]
<1> USE OutboxAssumption DEF IInv
<1>1. /\ pc[w] = "confirmed" /\ HoldsClaim(w)
      /\ published' = published \union {e}
      /\ claimToken' = [claimToken EXCEPT ![e] = NoToken]
      /\ UNCHANGED <<stored, deadLettered, attempts, lapsed, calls, copies, faults>>
  BY DEF MarkPublished, broker
<1>2. e \in Events /\ copies[e] > 0
  BY <1>1 DEF LocalState
<1>3. /\ e \in stored /\ e \notin Settled /\ e \notin batch[w] /\ token[w] \in Tokens
      /\ \A v \in Workers \ {w} : e \in AtWork(v) => token[v] \in lapsed
  BY <1>1, <1>2, MarkedRow
<1>4. /\ pc' \in [Workers -> PCs] /\ batch' \in [Workers -> SUBSET Events]
      /\ current' \in [Workers -> Events \union {NoEvent}]
      /\ token' \in [Workers -> Tokens \union {NoToken}]
      /\ tries' \in [Workers -> Nat]
      /\ LocalState' /\ TokensTellWorkersApart'
      /\ AtWork(w)' \subseteq AtWork(w) \ {e}
      /\ AtWork(w)' # {} => token'[w] = token[w]
      /\ \A v \in Workers \ {w} : AtWork(v)' = AtWork(v) /\ token'[v] = token[v]
  <2>1. CASE batch[w] = {}
    <3>1. Leave(w, "idle")
      BY <2>1 DEF MarkPublished
    <3>2. QED
      BY <1>1, <3>1, LeaveStep
  <2>2. CASE batch[w] # {}
    <3>1. /\ pc' = [pc EXCEPT ![w] = "loop"]
          /\ current' = [current EXCEPT ![w] = NoEvent]
          /\ UNCHANGED <<batch, token, tries>>
      BY <2>2 DEF MarkPublished
    <3>2. /\ pc' \in [Workers -> PCs] /\ batch' \in [Workers -> SUBSET Events]
          /\ current' \in [Workers -> Events \union {NoEvent}]
          /\ token' \in [Workers -> Tokens \union {NoToken}]
          /\ tries' \in [Workers -> Nat]
      BY <3>1 DEF TypeOK, PCs
    <3>3. LocalState'
      BY <1>1, <1>3, <3>1 DEF LocalState, TypeOK
    <3>4. TokensTellWorkersApart'
      BY <3>1 DEF TokensTellWorkersApart
    <3>5. /\ AtWork(w)' \subseteq AtWork(w) \ {e}
          /\ \A v \in Workers \ {w} : AtWork(v)' = AtWork(v) /\ token'[v] = token[v]
      BY <1>3, <3>1 DEF AtWork, TypeOK
    <3>6. QED
      BY <3>1, <3>2, <3>3, <3>4, <3>5
  <2>3. QED
    BY <2>1, <2>2
<1>5. TypeOK'
  BY <1>1, <1>2, <1>4 DEF TypeOK
<1>6. Settled' = Settled \union {e}
  BY <1>1 DEF Settled
<1>7. OnlyStored'
  BY <1>1, <1>3, <1>4, <1>6 DEF OnlyStored
<1>8. SettledOnce'
  <2>1. published' \intersect deadLettered' = {}
    BY <1>1, <1>3 DEF SettledOnce, Settled
  <2>2. \A d \in Settled' : claimToken'[d] = NoToken
    BY <1>1, <1>2, <1>6 DEF SettledOnce, TypeOK
  <2>3. QED
    BY <2>1, <2>2 DEF SettledOnce
<1>9. PublishedReachedBroker' /\ DeadLetteredCalled'
  BY <1>1, <1>2 DEF PublishedReachedBroker, DeadLetteredCalled
<1>10. LeaseProtectsBatch'
  <2>1. ASSUME NEW v \in Workers, NEW d \in AtWork(v)', token'[v] \notin lapsed'
        PROVE  claimToken'[d] = token'[v] /\ d \notin Settled'
    <3>1. token'[v] = token[v] /\ d \in AtWork(v) /\ d # e
      BY <1>1, <1>3, <1>4, <2>1
    <3>2. claimToken[d] = token[v] /\ d \notin Settled
      BY <1>1, <2>1, <3>1 DEF LeaseProtectsBatch
    <3>3. QED
      BY <1>1, <1>6, <3>1, <3>2 DEF TypeOK
  <2>2. QED
    BY <2>1 DEF LeaseProtectsBatch
<1>11. QED
  BY <1>4, <1>5, <1>7, <1>8, <1>9, <1>10

\* mark_outbox_event_failed, which also ends the worker's run.
LEMMA MarkFailedStep ==
  ASSUME IInv, NEW w \in Workers, MarkFailed(w)
  PROVE  IInv'
<1> DEFINE e == current[w]
<1> USE OutboxAssumption DEF IInv
<1>1. /\ pc[w] = "failed" /\ HoldsClaim(w) /\ Leave(w, "down")
      /\ deadLettered' \subseteq deadLettered \union {e}
      /\ claimToken' = [claimToken EXCEPT ![e] = NoToken]
      /\ UNCHANGED <<stored, published, attempts, lapsed, calls, copies, faults>>
  BY DEF MarkFailed, broker
<1>2. e \in Events /\ calls[e] > 0
  BY <1>1 DEF LocalState
<1>3. /\ e \in stored /\ e \notin Settled
      /\ \A v \in Workers \ {w} : e \in AtWork(v) => token[v] \in lapsed
  BY <1>1, <1>2, MarkedRow
<1>4. TypeOK'
  BY <1>1, <1>2, LeaveStep DEF TypeOK
<1>5. LocalState' /\ TokensTellWorkersApart'
  BY <1>1, LeaveStep
<1>6. Settled' \subseteq Settled \union {e}
  BY <1>1 DEF Settled
<1>7. OnlyStored'
  BY <1>1, <1>3, <1>6, LeaveStep DEF OnlyStored
<1>8. SettledOnce'
  <2>1. published' \intersect deadLettered' = {}
    BY <1>1, <1>3 DEF SettledOnce, Settled
  <2>2. \A d \in Settled' : claimToken'[d] = NoToken
    BY <1>1, <1>2, <1>6 DEF SettledOnce, TypeOK
  <2>3. QED
    BY <2>1, <2>2 DEF SettledOnce
<1>9. PublishedReachedBroker' /\ DeadLetteredCalled'
  BY <1>1, <1>2 DEF PublishedReachedBroker, DeadLetteredCalled
<1>10. LeaseProtectsBatch'
  <2>1. ASSUME NEW v \in Workers, NEW d \in AtWork(v)', token'[v] \notin lapsed'
        PROVE  claimToken'[d] = token'[v] /\ d \notin Settled'
    <3>1. v # w
      BY <1>1, <2>1, LeaveStep
    <3>2. token'[v] = token[v] /\ d \in AtWork(v)
      BY <1>1, <2>1, <3>1, LeaveStep
    <3>3. d # e
      BY <1>1, <1>3, <2>1, <3>1, <3>2
    <3>4. claimToken[d] = token[v] /\ d \notin Settled
      BY <1>1, <2>1, <3>2 DEF LeaseProtectsBatch
    <3>5. QED
      BY <1>1, <1>6, <3>2, <3>3, <3>4 DEF TypeOK
  <2>2. QED
    BY <2>1 DEF LeaseProtectsBatch
<1>11. QED
  BY <1>4, <1>5, <1>7, <1>8, <1>9, <1>10

\* A restart and the passing of time leave rows and batches alone; a lapse only
\* weakens what the lease protected.
LEMMA RestartStep ==
  ASSUME IInv, NEW w \in Workers, Restart(w)
  PROVE  IInv'
<1> USE DEF IInv, Restart, row, broker
<1>1. TypeOK'
  BY DEF TypeOK, PCs
<1>2. LocalState'
  BY DEF LocalState, TypeOK
<1>3. OnlyStored' /\ SettledOnce' /\ PublishedReachedBroker' /\ DeadLetteredCalled'
  BY DEF OnlyStored, SettledOnce, Settled, AtWork, PublishedReachedBroker, DeadLetteredCalled
<1>4. TokensTellWorkersApart' /\ LeaseProtectsBatch'
  BY DEF TokensTellWorkersApart, LeaseProtectsBatch, AtWork, Settled
<1>5. QED
  BY <1>1, <1>2, <1>3, <1>4

\* Only a lease runs out: the worker keeps its batch, and what it may share it with
\* others from then on.
LEMMA LapseStep ==
  ASSUME IInv, NEW t \in Tokens, LeaseLapses(t) \/ LeaseOverrun(t)
  PROVE  IInv'
<1> USE DEF IInv
<1>1. /\ lapsed' = lapsed \union {t}
      /\ UNCHANGED <<stored, published, deadLettered, claimToken, attempts,
                     pc, batch, current, token, tries, calls, copies>>
  BY DEF LeaseLapses, LeaseOverrun, row, worker, broker
<1>2. faults' \in Nat
  BY DEF LeaseLapses, LeaseOverrun, Fault, TypeOK
<1>3. TypeOK'
  BY <1>1, <1>2 DEF TypeOK
<1>4. LocalState' /\ OnlyStored' /\ SettledOnce' /\ PublishedReachedBroker'
      /\ DeadLetteredCalled' /\ TokensTellWorkersApart'
  BY <1>1 DEF LocalState, OnlyStored, SettledOnce, Settled, AtWork,
              PublishedReachedBroker, DeadLetteredCalled, TokensTellWorkersApart
<1>5. LeaseProtectsBatch'
  BY <1>1 DEF LeaseProtectsBatch, AtWork, Settled
<1>6. QED
  BY <1>3, <1>4, <1>5

-----------------------------------------------------------------------------
(* The theorems *)

\* The invariant holds of an empty table and workers that have yet to claim.
LEMMA InitIInv == Init => IInv
BY OutboxAssumption DEF Init, IInv, TypeOK, PCs, LocalState, OnlyStored, SettledOnce,
   Settled, AtWork, PublishedReachedBroker, DeadLetteredCalled, TokensTellWorkersApart,
   LeaseProtectsBatch

\* Every step keeps the invariant.
LEMMA NextIInv == IInv /\ [Next]_vars => IInv'
<1> SUFFICES ASSUME IInv, [Next]_vars PROVE IInv'
  OBVIOUS
<1>1. ASSUME NEW e \in Events, Enqueue(e) PROVE IInv'
  BY <1>1, EnqueueStep
<1>2. ASSUME NEW w \in Workers, Start(w) PROVE IInv'
  BY <1>2, ClaimStep, ClaimUnreadableStep DEF Start
<1>3. ASSUME NEW w \in Workers, Continue(w) PROVE IInv'
  BY <1>3, BeginPublishStep, PublishStep, MarkPublishedStep, MarkFailedStep,
     DropStep, RestartStep DEF Continue
<1>4. ASSUME NEW w \in Workers, Crash(w) PROVE IInv'
  BY <1>4, DropStep
<1>5. ASSUME NEW t \in Tokens, LeaseLapses(t) \/ LeaseOverrun(t) PROVE IInv'
  BY <1>5, LapseStep
<1>6. CASE UNCHANGED vars
  BY <1>6 DEF vars, row, worker, broker, IInv, TypeOK, LocalState, OnlyStored,
     SettledOnce, Settled, AtWork, PublishedReachedBroker, DeadLetteredCalled,
     TokensTellWorkersApart, LeaseProtectsBatch
<1>7. QED
  BY <1>1, <1>2, <1>3, <1>4, <1>5, <1>6 DEF Next

\* The invariant holds of every behaviour.
THEOREM IInvHolds == Spec => []IInv
BY InitIInv, NextIInv, PTL DEF Spec

\* Every column and every local of a worker keeps its type, although workers stop
\* anywhere: no claim, mark or crash leaves a row half-set.
THEOREM TypeCorrect == Spec => []TypeOK
<1>1. IInv => TypeOK
  BY DEF IInv
<1>2. QED
  BY <1>1, IInvHolds, PTL

\* A row is settled one way only and then carries no claim.
THEOREM SettledOnceHolds == Spec => []SettledOnce
<1>1. IInv => SettledOnce
  BY DEF IInv
<1>2. QED
  BY <1>1, IInvHolds, PTL

\* What the table calls published, the broker has.
THEOREM PublishedReachedBrokerHolds == Spec => []PublishedReachedBroker
<1>1. IInv => PublishedReachedBroker
  BY DEF IInv
<1>2. QED
  BY <1>1, IInvHolds, PTL

\* A claim keeps every other worker off its rows while its lease runs.
THEOREM LeaseProtectsBatchHolds == Spec => []LeaseProtectsBatch
<1>1. IInv => LeaseProtectsBatch
  BY DEF IInv
<1>2. QED
  BY <1>1, IInvHolds, PTL

\* Two workers are at one event only when the lease of one of them was overrun.
THEOREM SharedOnlyAfterLapseHolds == Spec => []SharedOnlyAfterLapse
<1>1. IInv => SharedOnlyAfterLapse
  <2> SUFFICES ASSUME IInv, NEW v \in Workers, NEW w \in Workers, v # w,
                      NEW e \in AtWork(v) \intersect AtWork(w),
                      token[v] \notin lapsed, token[w] \notin lapsed
               PROVE  FALSE
    BY DEF SharedOnlyAfterLapse
  <2>1. token[v] = claimToken[e] /\ token[w] = claimToken[e]
    BY DEF IInv, LeaseProtectsBatch
  <2>2. token[v] # NoToken
    BY OutboxAssumption DEF IInv, LocalState, AtWork, TypeOK
  <2>3. QED
    BY <2>1, <2>2 DEF IInv, TokensTellWorkersApart
<1>2. QED
  BY <1>1, IInvHolds, PTL

-----------------------------------------------------------------------------
(* Settled rows are final, and the table implements an outbox *)

\* What any step may change of a settled row: nothing.
LEMMA StepKeepsSettled ==
  ASSUME IInv, [Next]_vars
  PROVE  SettledRowsKept
<1> USE DEF SettledRowsKept
<1>1. ASSUME NEW e \in Events, Enqueue(e) PROVE SettledRowsKept
  BY <1>1 DEF Enqueue
<1>2. ASSUME ClaimRows(Oldest(Claimable, BatchSize), FreshToken)
      PROVE  SettledRowsKept
  <2>1. ASSUME NEW e \in Settled PROVE e \in Events /\ e \notin Oldest(Claimable, BatchSize)
    BY <2>1, ClaimedRows DEF Settled, IInv, TypeOK
  <2>2. QED
    BY <1>2, <2>1 DEF ClaimRows, Counted
<1>3. ASSUME NEW w \in Workers, Start(w) PROVE SettledRowsKept
  BY <1>2, <1>3 DEF Start, Claim, ClaimUnreadable
<1>4. ASSUME NEW w \in Workers, MarkPublished(w) \/ MarkFailed(w) PROVE SettledRowsKept
  <2>1. current[w] \in Events /\ HoldsClaim(w)
    BY <1>4 DEF MarkPublished, MarkFailed, IInv, LocalState
  <2>2. current[w] \notin Settled
    BY <2>1, MarkedRow
  <2>3. \A e \in Settled : claimToken'[e] = claimToken[e]
    BY <1>4, <2>2 DEF MarkPublished, MarkFailed, Settled, IInv, TypeOK
  <2>4. \A e \in Settled : /\ e \in published <=> e \in published'
                           /\ e \in deadLettered <=> e \in deadLettered'
    BY <1>4, <2>2 DEF MarkPublished, MarkFailed, Settled
  <2>5. attempts' = attempts
    BY <1>4 DEF MarkPublished, MarkFailed
  <2>6. QED
    BY <2>3, <2>4, <2>5
<1>5. ASSUME UNCHANGED row PROVE SettledRowsKept
  BY <1>5 DEF row
<1>6. ASSUME NEW w \in Workers, Continue(w) \/ Crash(w) PROVE SettledRowsKept
  <2>1. MarkPublished(w) \/ MarkFailed(w) \/ UNCHANGED row
    BY <1>6 DEF Continue, BeginPublish, PublishConfirmed, PublishTryFails, PublishRefused,
                ClaimLost, FlushAborts, Restart, Crash
  <2>2. QED
    BY <1>4, <1>5, <2>1
<1>7. ASSUME NEW t \in Tokens, LeaseLapses(t) \/ LeaseOverrun(t) PROVE SettledRowsKept
  BY <1>5, <1>7 DEF LeaseLapses, LeaseOverrun
<1>8. CASE UNCHANGED vars
  BY <1>5, <1>8 DEF vars
<1>9. QED
  BY <1>1, <1>3, <1>6, <1>7, <1>8 DEF Next

\* No claim, late mark or late failure ever reaches a settled row.
THEOREM SettledIsFinalHolds == Spec => SettledIsFinal
<1>1. IInv /\ [Next]_vars => [SettledRowsKept]_vars
  BY StepKeepsSettled
<1>2. QED
  BY <1>1, IInvHolds, PTL DEF Spec, SettledIsFinal

\* An empty table is an outbox in which nothing was stored.
LEMMA InitRefines == Init => Outbox!Init
<1> SUFFICES ASSUME Init PROVE Outbox!Init
  OBVIOUS
<1>1. OutboxStatus = [e \in Events |-> "absent"]
  BY DEF Init, OutboxStatus
<1>2. EventsTried = {}
  BY DEF Init, EventsTried
<1>3. QED
  BY <1>1, <1>2 DEF Outbox!Init, Init

\* Every step of the table and its workers is a step of the outbox, or none.
LEMMA StepRefines ==
  ASSUME IInv, [Next]_vars
  PROVE  [Outbox!Next]_(Outbox!vars)
<1> DEFINE Goal == [Outbox!Next]_(Outbox!vars)
<1> USE DEF Outbox!vars
<1>1. ASSUME UNCHANGED <<stored, published, deadLettered, calls, copies>> PROVE Goal
  BY <1>1 DEF OutboxStatus, EventsTried
<1>2. ASSUME NEW e \in Events, Enqueue(e) PROVE Goal
  <2>1. /\ e \notin stored /\ stored' = stored \union {e}
        /\ UNCHANGED <<published, deadLettered, calls, copies>>
    BY <1>2 DEF Enqueue, broker
  <2>2. e \notin published /\ e \notin deadLettered
    BY <2>1 DEF IInv, OnlyStored, Settled
  <2>3. OutboxStatus[e] = "absent"
    BY <2>1, <2>2 DEF OutboxStatus
  <2>4. OutboxStatus' = [OutboxStatus EXCEPT ![e] = "pending"]
    BY <2>1, <2>2 DEF OutboxStatus
  <2>5. EventsTried' = EventsTried
    BY <2>1 DEF EventsTried
  <2>6. Outbox!Commit(e)
    BY <2>1, <2>3, <2>4, <2>5 DEF Outbox!Commit
  <2>7. QED
    BY <2>6 DEF Outbox!Next
<1>3. ASSUME NEW w \in Workers, Start(w) PROVE Goal
  BY <1>1, <1>3 DEF Start, Claim, ClaimUnreadable, ClaimRows, broker
<1>4. ASSUME NEW w \in Workers, BeginPublish(w) PROVE Goal
  <2>1. PICK e \in batch[w] :
          /\ current' = [current EXCEPT ![w] = e]
          /\ batch' = [batch EXCEPT ![w] = @ \ {e}]
          /\ calls' = [calls EXCEPT ![e] = calls[e] + 1]
    BY <1>4 DEF BeginPublish
  <2>2. e \in Events /\ e \in stored
    BY <2>1 DEF IInv, TypeOK, OnlyStored, AtWork
  <2>3. UNCHANGED <<stored, published, deadLettered, copies>>
    BY <1>4 DEF BeginPublish, row
  <2>4. OutboxStatus[e] # "absent" /\ OutboxStatus' = OutboxStatus
    BY <2>2, <2>3 DEF OutboxStatus
  <2>5. calls[e] + 1 > 0
    BY <2>2 DEF IInv, TypeOK
  <2>6. EventsTried' = EventsTried \union {e}
    BY <2>1, <2>2, <2>5 DEF EventsTried, IInv, TypeOK
  <2>7. Outbox!Try(e)
    BY <2>3, <2>4, <2>6 DEF Outbox!Try
  <2>8. QED
    BY <2>2, <2>7 DEF Outbox!Next
<1>5. ASSUME NEW w \in Workers, PublishConfirmed(w) \/ PublishTryFails(w) PROVE Goal
  <2>1. /\ current[w] \in Events /\ current[w] \in EventsTried
        /\ UNCHANGED <<stored, published, deadLettered, calls>>
    BY <1>5 DEF PublishConfirmed, PublishTryFails, IInv, LocalState, EventsTried, row
  <2>2. OutboxStatus' = OutboxStatus /\ EventsTried' = EventsTried
    BY <2>1 DEF OutboxStatus, EventsTried
  <2>3. ASSUME copies' = [copies EXCEPT ![current[w]] = copies[current[w]] + 1] PROVE Goal
    <3>1. Outbox!Accept(current[w])
      BY <2>1, <2>2, <2>3 DEF Outbox!Accept
    <3>2. QED
      BY <2>1, <3>1 DEF Outbox!Next
  <2>4. CASE PublishConfirmed(w)
    BY <2>3, <2>4 DEF PublishConfirmed
  <2>5. CASE PublishTryFails(w)
    <3>1. PICK taken \in {0, 1} :
            copies' = [copies EXCEPT ![current[w]] = copies[current[w]] + taken]
      BY <2>5 DEF PublishTryFails
    <3>2. CASE taken = 1
      BY <2>3, <3>1, <3>2
    <3>3. CASE taken = 0
      <4>1. copies[current[w]] + 0 = copies[current[w]]
        BY <2>1 DEF IInv, TypeOK
      <4>2. copies' = copies
        BY <3>1, <3>3, <4>1 DEF IInv, TypeOK
      <4>3. QED
        BY <2>1, <4>2, <1>1
    <3>4. QED
      BY <3>2, <3>3
  <2>6. QED
    BY <1>5, <2>4, <2>5
<1>6. ASSUME NEW w \in Workers, MarkPublished(w) PROVE Goal
  <2>1. /\ current[w] \in Events /\ copies[current[w]] > 0 /\ HoldsClaim(w)
        /\ published' = published \union {current[w]}
        /\ UNCHANGED <<stored, deadLettered, calls, copies>>
    BY <1>6 DEF MarkPublished, IInv, LocalState, broker
  <2>2. current[w] \in stored /\ current[w] \notin published /\ current[w] \notin deadLettered
    BY <2>1, MarkedRow DEF Settled
  <2>3. OutboxStatus[current[w]] = "pending"
    BY <2>1, <2>2 DEF OutboxStatus
  <2>4. OutboxStatus' = [OutboxStatus EXCEPT ![current[w]] = "published"]
    BY <2>1 DEF OutboxStatus
  <2>5. EventsTried' = EventsTried
    BY <2>1 DEF EventsTried
  <2>6. Outbox!Publish(current[w])
    BY <2>1, <2>3, <2>4, <2>5 DEF Outbox!Publish
  <2>7. QED
    BY <2>1, <2>6 DEF Outbox!Next
<1>7. ASSUME NEW w \in Workers, MarkFailed(w) PROVE Goal
  <2>1. /\ current[w] \in Events /\ calls[current[w]] > 0 /\ HoldsClaim(w)
        /\ \/ deadLettered' = deadLettered
           \/ deadLettered' = deadLettered \union {current[w]}
        /\ UNCHANGED <<stored, published, calls, copies>>
    BY <1>7 DEF MarkFailed, IInv, LocalState, broker
  <2>2. current[w] \in stored /\ current[w] \notin published /\ current[w] \notin deadLettered
    BY <2>1, MarkedRow DEF Settled
  <2>3. CASE deadLettered' = deadLettered
    BY <1>1, <2>1, <2>3
  <2>4. CASE deadLettered' = deadLettered \union {current[w]}
    <3>1. OutboxStatus[current[w]] = "pending" /\ current[w] \in EventsTried
      BY <2>1, <2>2 DEF OutboxStatus, EventsTried
    <3>2. OutboxStatus' = [OutboxStatus EXCEPT ![current[w]] = "dead"]
      BY <2>1, <2>2, <2>4 DEF OutboxStatus
    <3>3. EventsTried' = EventsTried
      BY <2>1 DEF EventsTried
    <3>4. Outbox!GiveUp(current[w])
      BY <2>1, <3>1, <3>2, <3>3 DEF Outbox!GiveUp
    <3>5. QED
      BY <2>1, <3>4 DEF Outbox!Next
  <2>5. QED
    BY <2>1, <2>3, <2>4
<1>8. ASSUME NEW w \in Workers,
             PublishRefused(w) \/ ClaimLost(w) \/ FlushAborts(w) \/ Restart(w) \/ Crash(w)
      PROVE  Goal
  BY <1>1, <1>8 DEF PublishRefused, ClaimLost, FlushAborts, Restart, Crash, row, broker
<1>9. ASSUME NEW t \in Tokens, LeaseLapses(t) \/ LeaseOverrun(t) PROVE Goal
  BY <1>1, <1>9 DEF LeaseLapses, LeaseOverrun, row, broker
<1>10. CASE UNCHANGED vars
  BY <1>1, <1>10 DEF vars, row, broker
<1>11. QED
  BY <1>2, <1>3, <1>4, <1>5, <1>6, <1>7, <1>8, <1>9, <1>10 DEF Next, Continue

\* The table with its workers implements the at-least-once outbox: nothing is
\* published that was not committed, nothing counts as published that the broker
\* has not got, and no event is given up without having been tried.
THEOREM Refinement == Spec => ImplementsOutbox
<1>1. IInv /\ [Next]_vars => [Outbox!Next]_(Outbox!vars)
  BY StepRefines
<1>2. QED
  BY <1>1, InitRefines, IInvHolds, PTL DEF Spec, ImplementsOutbox, Outbox!Spec
-----------------------------------------------------------------------------
(* How many calls and copies a row may cost *)

\* A set of workers has a size.
LEMMA WorkersCounted ==
  ASSUME NEW S \in SUBSET Workers
  PROVE  IsFiniteSet(S) /\ Cardinality(S) \in Nat
BY WorkersFinite, FS_Subset, FS_CardinalityType

\* The workers that have still to reach row e.
Holders(e) == {w \in Workers : e \in batch[w]}

\* A step that makes no call, counts no attempt and gives no worker a row.
LEMMA BatchesShrink ==
  ASSUME TypeOK, CallsWithinClaims, UNCHANGED <<calls, attempts>>,
         \A w \in Workers : batch'[w] \subseteq batch[w]
  PROVE  CallsWithinClaims'
<1> SUFFICES ASSUME NEW e \in Events
             PROVE  calls'[e] + Cardinality(Holders(e)') <= attempts'[e]
  BY DEF CallsWithinClaims, Holders
<1>1. Holders(e)' \in SUBSET Holders(e)
  BY DEF Holders
<1>2. IsFiniteSet(Holders(e)) /\ Cardinality(Holders(e)) \in Nat
  BY WorkersCounted DEF Holders
<1>3. Cardinality(Holders(e)') <= Cardinality(Holders(e)) /\ Cardinality(Holders(e)') \in Nat
  BY <1>1, <1>2, FS_Subset, FS_CardinalityType
<1>4. calls[e] \in Nat /\ attempts[e] \in Nat /\ calls[e] + Cardinality(Holders(e)) <= attempts[e]
  BY DEF TypeOK, CallsWithinClaims, Holders
<1>5. QED
  BY <1>2, <1>3, <1>4

\* A claim counts one attempt of each of its rows and gives them to one worker.
LEMMA ClaimCounted ==
  ASSUME IInv, CallsWithinClaims, NEW w \in Workers, Claim(w)
  PROVE  CallsWithinClaims'
<1> DEFINE got == Oldest(Claimable, BatchSize)
<1> SUFFICES ASSUME NEW e \in Events
             PROVE  calls'[e] + Cardinality(Holders(e)') <= attempts'[e]
  BY DEF CallsWithinClaims, Holders
<1>1. TypeOK /\ LocalState
  BY DEF IInv
<1>2. /\ batch' = [batch EXCEPT ![w] = got]
      /\ batch[w] = {}
      /\ calls' = calls
      /\ attempts'[e] = IF e \in got THEN attempts[e] + 1 ELSE attempts[e]
  BY <1>1 DEF Claim, StartsCycle, LocalState, ClaimRows, Counted, broker
<1>3. /\ w \notin Holders(e)
      /\ Holders(e)' = IF e \in got THEN Holders(e) \union {w} ELSE Holders(e)
  BY <1>1, <1>2 DEF Holders, TypeOK
<1>4. IsFiniteSet(Holders(e)) /\ Cardinality(Holders(e)) \in Nat
  BY WorkersCounted DEF Holders
<1>5. Cardinality(Holders(e) \union {w}) = Cardinality(Holders(e)) + 1
  BY <1>3, <1>4, FS_AddElement
<1>6. calls[e] \in Nat /\ attempts[e] \in Nat /\ calls[e] + Cardinality(Holders(e)) <= attempts[e]
  BY <1>1 DEF TypeOK, CallsWithinClaims, Holders
<1>7. QED
  BY <1>2, <1>3, <1>4, <1>5, <1>6

\* A claim that cannot be read counts attempts for nothing.
LEMMA ClaimWasted ==
  ASSUME IInv, CallsWithinClaims, NEW w \in Workers, ClaimUnreadable(w)
  PROVE  CallsWithinClaims'
<1> DEFINE got == Oldest(Claimable, BatchSize)
<1> SUFFICES ASSUME NEW e \in Events
             PROVE  calls'[e] + Cardinality(Holders(e)') <= attempts'[e]
  BY DEF CallsWithinClaims, Holders
<1>1. /\ Holders(e)' = Holders(e)
      /\ calls' = calls
      /\ attempts'[e] = IF e \in got THEN attempts[e] + 1 ELSE attempts[e]
  BY DEF ClaimUnreadable, ClaimRows, Counted, Holders, broker
<1>2. Cardinality(Holders(e)) \in Nat
  BY WorkersCounted DEF Holders
<1>3. calls[e] \in Nat /\ attempts[e] \in Nat /\ calls[e] + Cardinality(Holders(e)) <= attempts[e]
  BY DEF IInv, TypeOK, CallsWithinClaims, Holders
<1>4. QED
  BY <1>1, <1>2, <1>3

\* A publish call is made for a row that the worker then no longer has before it.
LEMMA CallCounted ==
  ASSUME IInv, CallsWithinClaims, NEW w \in Workers, BeginPublish(w)
  PROVE  CallsWithinClaims'
<1> SUFFICES ASSUME NEW e \in Events
             PROVE  calls'[e] + Cardinality(Holders(e)') <= attempts'[e]
  BY DEF CallsWithinClaims, Holders
<1>1. PICK f \in batch[w] : /\ batch' = [batch EXCEPT ![w] = @ \ {f}]
                            /\ calls' = [calls EXCEPT ![f] = @ + 1]
  BY DEF BeginPublish
<1>2. attempts' = attempts
  BY DEF BeginPublish, row
<1>3. /\ f = e => w \in Holders(e)
      /\ Holders(e)' = IF f = e THEN Holders(e) \ {w} ELSE Holders(e)
  BY <1>1 DEF IInv, TypeOK, Holders
<1>4. IsFiniteSet(Holders(e)) /\ Cardinality(Holders(e)) \in Nat
  BY WorkersCounted DEF Holders
<1>5. f = e => Cardinality(Holders(e) \ {w}) = Cardinality(Holders(e)) - 1
  BY <1>3, <1>4, FS_RemoveElement
<1>6. calls'[e] = IF f = e THEN calls[e] + 1 ELSE calls[e]
  BY <1>1 DEF IInv, TypeOK
<1>7. calls[e] \in Nat /\ attempts[e] \in Nat /\ calls[e] + Cardinality(Holders(e)) <= attempts[e]
  BY DEF IInv, TypeOK, CallsWithinClaims, Holders
<1>8. QED
  BY <1>2, <1>3, <1>4, <1>5, <1>6, <1>7

\* No step lets a row cost more calls than claims.
LEMMA NextCounted == IInv /\ CallsWithinClaims /\ [Next]_vars => CallsWithinClaims'
<1> SUFFICES ASSUME IInv, CallsWithinClaims, [Next]_vars PROVE CallsWithinClaims'
  OBVIOUS
<1>1. TypeOK
  BY DEF IInv
<1>2. ASSUME NEW w \in Workers, Start(w) PROVE CallsWithinClaims'
  BY <1>2, ClaimCounted, ClaimWasted DEF Start
<1>3. ASSUME NEW w \in Workers, BeginPublish(w) PROVE CallsWithinClaims'
  BY <1>3, CallCounted
<1>4. ASSUME NEW w \in Workers,
             \/ PublishConfirmed(w) \/ PublishTryFails(w) \/ PublishRefused(w) \/ Restart(w)
      PROVE  CallsWithinClaims'
  BY <1>1, <1>4, BatchesShrink
     DEF PublishConfirmed, PublishTryFails, PublishRefused, Restart, row, broker
<1>5. ASSUME NEW w \in Workers,
             MarkPublished(w) \/ MarkFailed(w) \/ ClaimLost(w) \/ FlushAborts(w) \/ Crash(w)
      PROVE  CallsWithinClaims'
  <2>1. UNCHANGED <<calls, attempts>>
    BY <1>5 DEF MarkPublished, MarkFailed, ClaimLost, FlushAborts, Crash, row, broker
  <2>2. batch' = batch \/ batch' = [batch EXCEPT ![w] = {}]
    BY <1>5 DEF MarkPublished, MarkFailed, ClaimLost, FlushAborts, Crash, Leave
  <2>3. QED
    BY <1>1, <2>1, <2>2, BatchesShrink DEF TypeOK
<1>6. CASE \/ \E e \in Events : Enqueue(e)
           \/ \E t \in Tokens : LeaseLapses(t) \/ LeaseOverrun(t)
           \/ UNCHANGED vars
  BY <1>1, <1>6, BatchesShrink
     DEF Enqueue, LeaseLapses, LeaseOverrun, vars, row, worker, broker
<1>7. QED
  BY <1>2, <1>3, <1>4, <1>5, <1>6 DEF Next, Continue

\* However leases and crashes hand a row from worker to worker, it costs at most
\* one publish call for each time it was claimed.
THEOREM CallsWithinClaimsHolds == Spec => []CallsWithinClaims
<1>1. Init => CallsWithinClaims
  <2> SUFFICES ASSUME Init, NEW e \in Events
               PROVE  calls[e] + Cardinality(Holders(e)) <= attempts[e]
    BY DEF CallsWithinClaims, Holders
  <2>1. Holders(e) = {} /\ calls[e] = 0 /\ attempts[e] = 0
    BY DEF Init, Holders
  <2>2. QED
    BY <2>1, FS_EmptySet
<1>2. QED
  BY <1>1, NextCounted, IInvHolds, PTL DEF Spec

\* The tries that publish calls under way for row e may still make.
TriesLeft(e) ==
  {p \in Workers \X (1 .. PublishTries) :
     pc[p[1]] = "publish" /\ current[p[1]] = e /\ tries[p[1]] < p[2]}

\* A call that goes on has a try left, and the copies made so far are paid for
\* by the tries that are used up.
CopyBudget ==
  /\ \A w \in Workers : pc[w] = "publish" => tries[w] < PublishTries
  /\ \A e \in Events : copies[e] + Cardinality(TriesLeft(e)) <= PublishTries * calls[e]

\* Sets of tries have a size.
LEMMA TriesCounted ==
  ASSUME NEW S \in SUBSET (Workers \X (1 .. PublishTries))
  PROVE  IsFiniteSet(S) /\ Cardinality(S) \in Nat
<1>1. IsFiniteSet(1 .. PublishTries)
  BY OutboxAssumption, FS_Interval
<1>2. IsFiniteSet(Workers \X (1 .. PublishTries))
  BY <1>1, WorkersFinite, FS_Product
<1>3. QED
  BY <1>2, FS_Subset, FS_CardinalityType

\* What the budget is about, as numbers.
LEMMA BudgetTyped ==
  ASSUME IInv, CopyBudget, NEW e \in Events
  PROVE  /\ copies[e] \in Nat /\ calls[e] \in Nat /\ PublishTries * calls[e] \in Nat
         /\ IsFiniteSet(TriesLeft(e)) /\ Cardinality(TriesLeft(e)) \in Nat
         /\ copies[e] + Cardinality(TriesLeft(e)) <= PublishTries * calls[e]
<1>1. copies[e] \in Nat /\ calls[e] \in Nat /\ PublishTries \in Nat
  BY OutboxAssumption DEF IInv, TypeOK
<1>2. TriesLeft(e) \in SUBSET (Workers \X (1 .. PublishTries))
  BY DEF TriesLeft
<1>3. IsFiniteSet(TriesLeft(e)) /\ Cardinality(TriesLeft(e)) \in Nat
  BY <1>2, TriesCounted
<1>4. PublishTries * calls[e] \in Nat
  BY <1>1
<1>5. QED
  BY <1>1, <1>3, <1>4 DEF CopyBudget

\* A step without a publish call and without an answer of the broker.
LEMMA BudgetKept ==
  ASSUME IInv, CopyBudget, UNCHANGED <<calls, copies>>,
         \A w \in Workers : pc'[w] = "publish" =>
           pc[w] = "publish" /\ current'[w] = current[w] /\ tries'[w] = tries[w]
  PROVE  CopyBudget'
<1>1. \A w \in Workers : pc'[w] = "publish" => tries'[w] < PublishTries
  BY DEF CopyBudget
<1>2. ASSUME NEW e \in Events
      PROVE  copies'[e] + Cardinality(TriesLeft(e)') <= PublishTries * calls'[e]
  <2>1. TriesLeft(e)' \in SUBSET TriesLeft(e)
    BY DEF TriesLeft
  <2>2. /\ Cardinality(TriesLeft(e)') <= Cardinality(TriesLeft(e))
        /\ Cardinality(TriesLeft(e)') \in Nat
    BY <2>1, BudgetTyped, FS_Subset, FS_CardinalityType
  <2>3. calls'[e] = calls[e] /\ copies'[e] = copies[e]
    OBVIOUS
  <2>4. QED
    BY <2>2, <2>3, BudgetTyped
<1>3. QED
  BY <1>1, <1>2 DEF CopyBudget

\* A try is used up and leaves one copy at most.
LEMMA TryUsed ==
  ASSUME IInv, CopyBudget, NEW w \in Workers, pc[w] = "publish",
         NEW taken \in {0, 1},
         copies' = [copies EXCEPT ![current[w]] = @ + taken],
         UNCHANGED <<calls, current>>,
         pc'[w] = "publish" => tries'[w] = tries[w] + 1 /\ tries'[w] < PublishTries,
         \A v \in Workers \ {w} : pc'[v] = pc[v] /\ tries'[v] = tries[v]
  PROVE  CopyBudget'
<1>1. /\ current[w] \in Events
      /\ tries \in [Workers -> Nat]
      /\ tries[w] < PublishTries
  BY DEF IInv, LocalState, TypeOK, CopyBudget
<1>2. \A v \in Workers : pc'[v] = "publish" => tries'[v] < PublishTries
  BY DEF CopyBudget
<1>3. ASSUME NEW e \in Events
      PROVE  copies'[e] + Cardinality(TriesLeft(e)') <= PublishTries * calls'[e]
  <2>1. calls'[e] = calls[e]
    OBVIOUS
  <2>2. ASSUME NEW p \in TriesLeft(e)' PROVE p \in TriesLeft(e) /\ p # <<w, tries[w] + 1>>
    <3>1. CASE p[1] = w
      <4>1. p \in Workers \X (1 .. PublishTries) /\ p[2] \in Nat
        BY OutboxAssumption DEF TriesLeft
      <4>2. pc'[w] = "publish" /\ current[w] = e /\ tries[w] + 1 < p[2]
        BY <3>1 DEF TriesLeft
      <4>3. tries[w] < p[2] /\ p[2] # tries[w] + 1
        BY <1>1, <4>1, <4>2
      <4>4. p \in TriesLeft(e)
        BY <3>1, <4>1, <4>2, <4>3 DEF TriesLeft
      <4>5. QED
        BY <4>3, <4>4
    <3>2. CASE p[1] # w
      BY <3>2 DEF TriesLeft
    <3>3. QED
      BY <3>1, <3>2
  <2>3. CASE e = current[w]
    <3> DEFINE used == <<w, tries[w] + 1>>
    <3>1. used \in TriesLeft(e)
      <4>1. tries[w] + 1 \in 1 .. PublishTries /\ tries[w] < tries[w] + 1
        BY <1>1, OutboxAssumption
      <4>2. QED
        BY <2>3, <4>1 DEF TriesLeft
    <3>2. /\ IsFiniteSet(TriesLeft(e) \ {used})
          /\ Cardinality(TriesLeft(e) \ {used}) = Cardinality(TriesLeft(e)) - 1
      BY <3>1, BudgetTyped, FS_RemoveElement
    <3>3. TriesLeft(e)' \in SUBSET (TriesLeft(e) \ {used})
      BY <2>2
    <3>4. /\ Cardinality(TriesLeft(e)') <= Cardinality(TriesLeft(e) \ {used})
          /\ Cardinality(TriesLeft(e)') \in Nat
      BY <3>2, <3>3, FS_Subset, FS_CardinalityType
    <3>5. copies'[e] = copies[e] + taken
      BY <2>3 DEF IInv, TypeOK
    <3>6. QED
      BY <2>1, <3>2, <3>4, <3>5, BudgetTyped
  <2>4. CASE e # current[w]
    <3>1. TriesLeft(e)' \in SUBSET TriesLeft(e)
      BY <2>2
    <3>2. /\ Cardinality(TriesLeft(e)') <= Cardinality(TriesLeft(e))
          /\ Cardinality(TriesLeft(e)') \in Nat
      BY <3>1, BudgetTyped, FS_Subset, FS_CardinalityType
    <3>3. copies'[e] = copies[e]
      BY <2>4 DEF IInv, TypeOK
    <3>4. QED
      BY <2>1, <3>2, <3>3, BudgetTyped
  <2>5. QED
    BY <2>3, <2>4
<1>4. QED
  BY <1>2, <1>3 DEF CopyBudget

\* A publish call brings all its tries.
LEMMA CallBudgeted ==
  ASSUME IInv, CopyBudget, NEW w \in Workers, BeginPublish(w)
  PROVE  CopyBudget'
<1>1. PICK f \in batch[w] : /\ current' = [current EXCEPT ![w] = f]
                            /\ calls' = [calls EXCEPT ![f] = @ + 1]
  BY DEF BeginPublish
<1>2. /\ pc[w] = "loop" /\ pc' = [pc EXCEPT ![w] = "publish"]
      /\ tries' = [tries EXCEPT ![w] = 0]
      /\ copies' = copies
      /\ f \in Events
      /\ PublishTries \in Nat \ {0}
  BY OutboxAssumption DEF BeginPublish, IInv, TypeOK
<1>3. \A v \in Workers : pc'[v] = "publish" => tries'[v] < PublishTries
  BY <1>2 DEF CopyBudget, IInv, TypeOK
<1>4. ASSUME NEW e \in Events
      PROVE  copies'[e] + Cardinality(TriesLeft(e)') <= PublishTries * calls'[e]
  <2> DEFINE all == {w} \X (1 .. PublishTries)
  <2>1. \A p \in TriesLeft(e)' : p \in TriesLeft(e) \/ (p \in all /\ e = f)
    BY <1>1, <1>2 DEF TriesLeft, IInv, TypeOK
  <2>2. CASE e = f
    <3>1. IsFiniteSet(1 .. PublishTries) /\ Cardinality(1 .. PublishTries) = PublishTries
      BY <1>2, FS_Interval
    <3>2. IsFiniteSet({w}) /\ Cardinality({w}) = 1
      BY FS_Singleton
    <3>3. IsFiniteSet(all) /\ Cardinality(all) = PublishTries
      BY <1>2, <3>1, <3>2, FS_Product
    <3>4. all \subseteq Workers \X (1 .. PublishTries)
      OBVIOUS
    <3>5. Cardinality(TriesLeft(e) \intersect all) \in Nat
      BY <3>4, TriesCounted
    <3>6. /\ IsFiniteSet(TriesLeft(e) \union all)
          /\ Cardinality(TriesLeft(e) \union all)
               = Cardinality(TriesLeft(e)) + PublishTries - Cardinality(TriesLeft(e) \intersect all)
      BY <3>3, BudgetTyped, FS_Union
    <3>7. TriesLeft(e)' \in SUBSET (TriesLeft(e) \union all)
      BY <2>1
    <3>8. /\ Cardinality(TriesLeft(e)') <= Cardinality(TriesLeft(e) \union all)
          /\ Cardinality(TriesLeft(e)') \in Nat
      BY <3>6, <3>7, FS_Subset, FS_CardinalityType
    <3>9. calls'[e] = calls[e] + 1
      BY <1>1, <2>2 DEF IInv, TypeOK
    <3>10. PublishTries * (calls[e] + 1) = PublishTries * calls[e] + PublishTries
      BY <1>2, BudgetTyped
    <3>11. QED
      BY <1>2, <3>5, <3>6, <3>8, <3>9, <3>10, BudgetTyped
  <2>3. CASE e # f
    <3>1. TriesLeft(e)' \in SUBSET TriesLeft(e)
      BY <2>1, <2>3
    <3>2. /\ Cardinality(TriesLeft(e)') <= Cardinality(TriesLeft(e))
          /\ Cardinality(TriesLeft(e)') \in Nat
      BY <3>1, BudgetTyped, FS_Subset, FS_CardinalityType
    <3>3. calls'[e] = calls[e]
      BY <1>1, <2>3 DEF IInv, TypeOK
    <3>4. QED
      BY <1>2, <3>2, <3>3, BudgetTyped
  <2>4. QED
    BY <2>2, <2>3
<1>5. QED
  BY <1>3, <1>4 DEF CopyBudget

\* No step makes more copies than it pays for.
LEMMA NextBudgeted == IInv /\ CopyBudget /\ [Next]_vars => CopyBudget'
<1> SUFFICES ASSUME IInv, CopyBudget, [Next]_vars PROVE CopyBudget'
  OBVIOUS
<1>1. TypeOK
  BY DEF IInv
<1>2. ASSUME NEW w \in Workers, Start(w) PROVE CopyBudget'
  <2>1. UNCHANGED <<calls, copies, current, tries>>
    BY <1>2 DEF Start, Claim, ClaimUnreadable, ClaimRows, broker
  <2>2. pc' = [pc EXCEPT ![w] = "loop"] \/ pc' = [pc EXCEPT ![w] = "down"]
    BY <1>2 DEF Start, Claim, ClaimUnreadable
  <2>3. QED
    BY <1>1, <2>1, <2>2, BudgetKept DEF TypeOK
<1>3. ASSUME NEW w \in Workers, BeginPublish(w) PROVE CopyBudget'
  BY <1>3, CallBudgeted
<1>4. ASSUME NEW w \in Workers, PublishConfirmed(w) PROVE CopyBudget'
  <2>1. pc[w] = "publish" /\ pc'[w] = "confirmed"
    BY <1>1, <1>4 DEF PublishConfirmed, TypeOK
  <2>2. \A v \in Workers \ {w} : pc'[v] = pc[v] /\ tries'[v] = tries[v]
    BY <1>1, <1>4 DEF PublishConfirmed, TypeOK
  <2>3. QED
    BY <1>4, <2>1, <2>2, TryUsed DEF PublishConfirmed
<1>5. ASSUME NEW w \in Workers, PublishTryFails(w) PROVE CopyBudget'
  <2>1. PICK taken \in {0, 1} : copies' = [copies EXCEPT ![current[w]] = @ + taken]
    BY <1>5 DEF PublishTryFails
  <2>2. pc[w] = "publish" /\ UNCHANGED <<calls, current>>
    BY <1>5 DEF PublishTryFails
  <2>3. pc'[w] = "publish" => tries'[w] = tries[w] + 1 /\ tries'[w] < PublishTries
    BY <1>1, <1>5 DEF PublishTryFails, AfterTry, TypeOK
  <2>4. \A v \in Workers \ {w} : pc'[v] = pc[v] /\ tries'[v] = tries[v]
    BY <1>1, <1>5 DEF PublishTryFails, TypeOK
  <2>5. QED
    BY <2>1, <2>2, <2>3, <2>4, TryUsed
<1>6. ASSUME NEW w \in Workers,
             \/ PublishRefused(w) \/ MarkPublished(w) \/ MarkFailed(w) \/ ClaimLost(w)
             \/ FlushAborts(w) \/ Crash(w) \/ Restart(w)
      PROVE  CopyBudget'
  <2>1. UNCHANGED <<calls, copies>>
    BY <1>6 DEF PublishRefused, MarkPublished, MarkFailed, ClaimLost, FlushAborts, Crash,
                Restart, row, broker
  <2>2. pc'[w] # "publish"
    BY <1>1, <1>6 DEF PublishRefused, MarkPublished, MarkFailed, ClaimLost, FlushAborts,
                      Crash, Restart, Leave, TypeOK
  <2>3. \A v \in Workers \ {w} :
          pc'[v] = pc[v] /\ current'[v] = current[v] /\ tries'[v] = tries[v]
    BY <1>1, <1>6 DEF PublishRefused, MarkPublished, MarkFailed, ClaimLost, FlushAborts,
                      Crash, Restart, Leave, TypeOK
  <2>4. QED
    BY <2>1, <2>2, <2>3, BudgetKept
<1>7. CASE \/ \E e \in Events : Enqueue(e)
           \/ \E t \in Tokens : LeaseLapses(t) \/ LeaseOverrun(t)
           \/ UNCHANGED vars
  BY <1>7, BudgetKept DEF Enqueue, LeaseLapses, LeaseOverrun, vars, row, worker, broker
<1>8. QED
  BY <1>2, <1>3, <1>4, <1>5, <1>6, <1>7 DEF Next, Continue

\* Confirmed, timed out or tried again by another worker, a row reaches the broker
\* at most as often as its publish calls had tries.
THEOREM CopiesBoundedHolds == Spec => []CopiesBounded
<1>1. Init => CopyBudget
  <2> SUFFICES ASSUME Init PROVE CopyBudget
    OBVIOUS
  <2>1. \A w \in Workers : pc[w] # "publish"
    BY DEF Init
  <2>2. ASSUME NEW e \in Events
        PROVE  copies[e] + Cardinality(TriesLeft(e)) <= PublishTries * calls[e]
    <3>1. TriesLeft(e) = {} /\ copies[e] = 0 /\ calls[e] = 0
      BY <2>1 DEF TriesLeft, Init
    <3>2. QED
      BY <3>1, FS_EmptySet, OutboxAssumption
  <2>3. QED
    BY <2>1, <2>2 DEF CopyBudget
<1>2. IInv /\ CopyBudget => CopiesBounded
  BY BudgetTyped DEF CopiesBounded
<1>3. QED
  BY <1>1, <1>2, NextBudgeted, IInvHolds, PTL DEF Spec
-----------------------------------------------------------------------------
(* How batches are chosen, and what a dead letter cost *)

\* Whatever was committed, the table is finite, so that its rows have an order.
TableFinite == IsFiniteSet(stored)

LEMMA TableFiniteHolds == Spec => []TableFinite
<1>1. Init => TableFinite
  BY FS_EmptySet DEF Init, TableFinite
<1>2. TableFinite /\ [Next]_vars => TableFinite'
  <2> SUFFICES ASSUME TableFinite, [Next]_vars PROVE TableFinite'
    OBVIOUS
  <2>1. CASE \E e \in Events : Enqueue(e)
    BY <2>1, FS_AddElement DEF Enqueue, TableFinite
  <2>2. CASE ~ \E e \in Events : Enqueue(e)
    <3>1. UNCHANGED stored
      BY <2>2
         DEF Next, Start, Continue, Claim, ClaimUnreadable, ClaimRows, BeginPublish,
             PublishConfirmed, PublishTryFails, PublishRefused, MarkPublished, MarkFailed,
             ClaimLost, FlushAborts, Crash, Restart, LeaseLapses, LeaseOverrun, vars, row
    <3>2. QED
      BY <3>1 DEF TableFinite
  <2>3. QED
    BY <2>1, <2>2
<1>3. QED
  BY <1>1, <1>2, PTL DEF Spec

\* The rows of the claim query are finitely many numbers.
LEMMA ClaimableOrdered ==
  ASSUME IInv, TableFinite
  PROVE  Claimable \in SUBSET Nat /\ IsFiniteSet(Claimable)
<1>1. Claimable \in SUBSET stored
  BY DEF Claimable
<1>2. QED
  BY <1>1, OutboxAssumption, FS_Subset DEF IInv, TypeOK, TableFinite

\* Only a claim gives a worker rows.
LEMMA OnlyClaimsGive ==
  ASSUME IInv, [Next]_vars, NEW w \in Workers
  PROVE  \/ AtWork(w)' \subseteq AtWork(w) /\ batch'[w] \subseteq batch[w]
         \/ Claim(w) /\ AtWork(w)' = batch'[w] /\ batch'[w] = Oldest(Claimable, BatchSize)
<1>1. TypeOK /\ LocalState
  BY DEF IInv
<1>2. CASE Claim(w)
  <2>1. /\ pc[w] = "idle"
        /\ batch' = [batch EXCEPT ![w] = Oldest(Claimable, BatchSize)]
        /\ current' = current
    BY <1>2 DEF Claim, StartsCycle
  <2>2. current[w] = NoEvent
    BY <1>1, <2>1 DEF LocalState, TypeOK
  <2>3. QED
    BY <1>1, <1>2, <2>1, <2>2 DEF AtWork, TypeOK
<1>3. CASE BeginPublish(w)
  <2>1. PICK e \in batch[w] : /\ current' = [current EXCEPT ![w] = e]
                              /\ batch' = [batch EXCEPT ![w] = @ \ {e}]
    BY <1>3 DEF BeginPublish
  <2>2. QED
    BY <1>1, <2>1 DEF AtWork, TypeOK
<1>4. CASE MarkPublished(w) \/ MarkFailed(w) \/ ClaimLost(w) \/ FlushAborts(w) \/ Crash(w)
  <2>1. current' = [current EXCEPT ![w] = NoEvent]
    BY <1>4 DEF MarkPublished, MarkFailed, ClaimLost, FlushAborts, Crash, Leave
  <2>2. batch' = batch \/ batch' = [batch EXCEPT ![w] = {}]
    BY <1>4 DEF MarkPublished, MarkFailed, ClaimLost, FlushAborts, Crash, Leave
  <2>3. QED
    BY <1>1, <2>1, <2>2 DEF AtWork, TypeOK
<1>5. CASE UNCHANGED <<batch[w], current[w]>>
  BY <1>5 DEF AtWork
<1>6. ASSUME NEW v \in Workers, v # w, Start(v) \/ Continue(v) \/ Crash(v)
      PROVE  UNCHANGED <<batch[w], current[w]>>
  BY <1>1, <1>6
     DEF Start, Continue, Claim, ClaimUnreadable, BeginPublish,
         PublishConfirmed, PublishTryFails, PublishRefused, MarkPublished, MarkFailed,
         ClaimLost, FlushAborts, Crash, Restart, Leave, TypeOK
<1>7. CASE ClaimUnreadable(w) \/ PublishConfirmed(w) \/ PublishTryFails(w) \/ PublishRefused(w)
           \/ Restart(w)
  BY <1>5, <1>7 DEF ClaimUnreadable, PublishConfirmed, PublishTryFails, PublishRefused, Restart
<1>8. CASE \/ \E e \in Events : Enqueue(e)
           \/ \E t \in Tokens : LeaseLapses(t) \/ LeaseOverrun(t)
           \/ UNCHANGED vars
  BY <1>5, <1>8 DEF Enqueue, LeaseLapses, LeaseOverrun, vars, worker
<1>9. QED
  BY <1>2, <1>3, <1>4, <1>5, <1>6, <1>7, <1>8 DEF Next, Start, Continue

\* No worker ever has more rows before it than the batch size, the one it is
\* publishing included: what a lease has to last for is bounded.
BatchBounded ==
  \A w \in Workers : IsFiniteSet(AtWork(w)) /\ Cardinality(AtWork(w)) <= BatchSize

\* The LIMIT of the claim bounds a worker's batch in every reachable state.
THEOREM BatchBoundedHolds == Spec => []BatchBounded
<1>1. Init => BatchBounded
  <2> SUFFICES ASSUME Init, NEW w \in Workers
               PROVE  IsFiniteSet(AtWork(w)) /\ Cardinality(AtWork(w)) <= BatchSize
    BY DEF BatchBounded
  <2>1. AtWork(w) = {}
    BY DEF Init, AtWork
  <2>2. QED
    BY <2>1, FS_EmptySet, OutboxAssumption
<1>2. IInv /\ TableFinite /\ BatchBounded /\ [Next]_vars => BatchBounded'
  <2> SUFFICES ASSUME IInv, TableFinite, BatchBounded, [Next]_vars, NEW w \in Workers
               PROVE  IsFiniteSet(AtWork(w)') /\ Cardinality(AtWork(w)') <= BatchSize
    BY DEF BatchBounded
  <2>1. CASE AtWork(w)' \subseteq AtWork(w)
    <3>1. /\ IsFiniteSet(AtWork(w)) /\ Cardinality(AtWork(w)) <= BatchSize
          /\ Cardinality(AtWork(w)) \in Nat
      BY FS_CardinalityType DEF BatchBounded
    <3>2. /\ IsFiniteSet(AtWork(w)') /\ Cardinality(AtWork(w)') <= Cardinality(AtWork(w))
          /\ Cardinality(AtWork(w)') \in Nat
      BY <2>1, <3>1, FS_Subset, FS_CardinalityType
    <3>3. QED
      BY <3>1, <3>2, OutboxAssumption
  <2>2. CASE AtWork(w)' = Oldest(Claimable, BatchSize)
    BY <2>2, ClaimableOrdered, OldestBounded, OutboxAssumption
  <2>3. QED
    BY <2>1, <2>2, OnlyClaimsGive
<1>3. QED
  BY <1>1, <1>2, IInvHolds, TableFiniteHolds, PTL DEF Spec

\* A worker that is given rows is given no row while an older one it could have
\* had is passed over.
OldestClaimed ==
  \A w \in Workers : \A e \in batch'[w] \ batch[w] :
    \A d \in Claimable \ batch'[w] : e < d

\* Claims take the oldest rows that are free, whichever workers race for them.
THEOREM OldestClaimedHolds == Spec => [][OldestClaimed]_vars
<1>1. IInv /\ TableFinite /\ [Next]_vars => [OldestClaimed]_vars
  <2> SUFFICES ASSUME IInv, TableFinite, [Next]_vars, NEW w \in Workers,
                      NEW e \in batch'[w] \ batch[w], NEW d \in Claimable \ batch'[w]
               PROVE  e < d
    BY DEF OldestClaimed
  <2>1. batch'[w] = Oldest(Claimable, BatchSize)
    BY OnlyClaimsGive
  <2>2. QED
    BY <2>1, ClaimableOrdered, OldestFirst, OutboxAssumption
<1>2. QED
  BY <1>1, IInvHolds, TableFiniteHolds, PTL DEF Spec

\* Multiplication keeps the order of the naturals.
LEMMA TimesMonotone ==
  ASSUME NEW k \in Nat, NEW m \in Nat, NEW n \in Nat, m <= n
  PROVE  k * m <= k * n
<1>1. PICK d \in Nat : n = m + d
  <2>1. n - m \in Nat /\ n = m + (n - m)
    OBVIOUS
  <2>2. QED
    BY <2>1
<1>2. k * n = k * m + k * d
  BY <1>1
<1>3. k * m \in Nat /\ k * d \in Nat
  OBVIOUS
<1>4. QED
  BY <1>2, <1>3

\* A row reaches the broker at most as often as its claims had tries, whatever
\* workers crash, overrun their leases or lose confirmations.
CopiesWithinClaims == \A e \in Events : copies[e] <= PublishTries * attempts[e]

THEOREM CopiesWithinClaimsHolds == Spec => []CopiesWithinClaims
<1>1. IInv /\ CallsWithinClaims /\ CopiesBounded => CopiesWithinClaims
  <2> SUFFICES ASSUME IInv, CallsWithinClaims, CopiesBounded, NEW e \in Events
               PROVE  copies[e] <= PublishTries * attempts[e]
    BY DEF CopiesWithinClaims
  <2>1. calls[e] \in Nat /\ attempts[e] \in Nat /\ copies[e] \in Nat
    BY DEF IInv, TypeOK
  <2>2. Cardinality(Holders(e)) \in Nat
    BY WorkersCounted DEF Holders
  <2>3. calls[e] <= attempts[e]
    BY <2>1, <2>2 DEF CallsWithinClaims, Holders
  <2>4. PublishTries * calls[e] <= PublishTries * attempts[e]
    BY <2>1, <2>3, TimesMonotone, OutboxAssumption
  <2>5. PublishTries * calls[e] \in Nat /\ PublishTries * attempts[e] \in Nat
    BY <2>1, OutboxAssumption
  <2>6. QED
    BY <2>1, <2>4, <2>5 DEF CopiesBounded
<1>2. QED
  BY <1>1, IInvHolds, CallsWithinClaimsHolds, CopiesBoundedHolds, PTL

\* A row is given up only when its attempts are used up.
DeadLetteredExhausted == \A e \in deadLettered : attempts[e] >= MaxAttempts

\* No late failure of a worker that lost its claim dead-letters a row early.
THEOREM DeadLetteredExhaustedHolds == Spec => []DeadLetteredExhausted
<1>1. Init => DeadLetteredExhausted
  BY DEF Init, DeadLetteredExhausted
<1>2. IInv /\ DeadLetteredExhausted /\ [Next]_vars => DeadLetteredExhausted'
  <2> SUFFICES ASSUME IInv, DeadLetteredExhausted, [Next]_vars PROVE DeadLetteredExhausted'
    OBVIOUS
  <2>1. TypeOK
    BY DEF IInv
  <2>2. ASSUME NEW e \in Events PROVE attempts'[e] \in Nat /\ attempts'[e] >= attempts[e]
    <3>1. CASE ClaimRows(Oldest(Claimable, BatchSize), FreshToken)
      BY <2>1, <3>1 DEF ClaimRows, Counted, TypeOK
    <3>2. CASE ~ ClaimRows(Oldest(Claimable, BatchSize), FreshToken)
      <4>1. UNCHANGED attempts
        BY <3>2
           DEF Next, Enqueue, Start, Continue, Claim, ClaimUnreadable, BeginPublish,
               PublishConfirmed, PublishTryFails, PublishRefused, MarkPublished, MarkFailed,
               ClaimLost, FlushAborts, Crash, Restart, LeaseLapses, LeaseOverrun, vars, row
      <4>2. QED
        BY <2>1, <4>1 DEF TypeOK
    <3>3. QED
      BY <3>1, <3>2
  <2>3. ASSUME NEW e \in deadLettered' PROVE attempts'[e] >= MaxAttempts
    <3>1. CASE e \in deadLettered
      BY <2>1, <2>2, <3>1, OutboxAssumption DEF DeadLetteredExhausted, TypeOK
    <3>2. CASE e \notin deadLettered
      <4>1. PICK w \in Workers : MarkFailed(w)
        BY <2>3, <3>2
           DEF Next, Enqueue, Start, Continue, Claim, ClaimUnreadable, ClaimRows, BeginPublish,
               PublishConfirmed, PublishTryFails, PublishRefused, MarkPublished,
               ClaimLost, FlushAborts, Crash, Restart, LeaseLapses, LeaseOverrun, vars, row
      <4>2. QED
        BY <2>3, <3>2, <4>1 DEF MarkFailed
    <3>3. QED
      BY <3>1, <3>2
  <2>4. QED
    BY <2>3 DEF DeadLetteredExhausted
<1>3. QED
  BY <1>1, <1>2, IInvHolds, PTL DEF Spec
-----------------------------------------------------------------------------
(* Claims and the workers that hold them *)

\* A row under the token of a worker is one that the worker still has before it:
\* every other claimed row is under a token nobody holds, whose lease just lapses.
ClaimsAtWork ==
  \A w \in Workers, e \in Events :
    token[w] # NoToken /\ claimToken[e] = token[w] => e \in AtWork(w)

\* A step that gives no token and takes no row from a worker that keeps its token.
LEMMA ClaimsKept ==
  ASSUME ClaimsAtWork,
         \A w \in Workers : \/ token'[w] = NoToken
                            \/ token'[w] = token[w] /\ AtWork(w)' = AtWork(w),
         \A e \in Events : claimToken'[e] \in {claimToken[e], NoToken}
  PROVE  ClaimsAtWork'
BY DEF ClaimsAtWork

\* A claim leaves the rows of the other workers where they are.
LEMMA ClaimGivesAll ==
  ASSUME IInv, ClaimsAtWork, NEW v \in Workers, Claim(v) \/ ClaimUnreadable(v)
  PROVE  ClaimsAtWork'
<1> DEFINE got == Oldest(Claimable, BatchSize)
<1> SUFFICES ASSUME NEW w \in Workers, NEW e \in Events,
                    token'[w] # NoToken, claimToken'[e] = token'[w]
             PROVE  e \in AtWork(w)'
  BY DEF ClaimsAtWork
<1>1. TypeOK /\ LocalState
  BY DEF IInv
<1>2. /\ claimToken'[e] = IF e \in got THEN FreshToken ELSE claimToken[e]
      /\ FreshTokens # {}
      /\ UNCHANGED current
  BY DEF Claim, ClaimUnreadable, ClaimRows
<1>3. /\ claimToken[e] # FreshToken
      /\ token[w] # FreshToken
  BY <1>2, FreshTokenUnused
<1>4. CASE token'[w] = token[w] /\ batch'[w] = batch[w]
  BY <1>2, <1>3, <1>4 DEF ClaimsAtWork, AtWork
<1>5. CASE token'[w] = FreshToken /\ batch'[w] = got
  BY <1>2, <1>3, <1>5 DEF AtWork
<1>6. QED
  BY <1>1, <1>4, <1>5 DEF Claim, ClaimUnreadable, TypeOK

\* A worker that begins to publish a row still has it before it.
LEMMA CallHolds ==
  ASSUME IInv, ClaimsAtWork, NEW v \in Workers, BeginPublish(v)
  PROVE  ClaimsAtWork'
<1>1. TypeOK /\ LocalState
  BY DEF IInv
<1>2. PICK f \in batch[v] : /\ current' = [current EXCEPT ![v] = f]
                            /\ batch' = [batch EXCEPT ![v] = @ \ {f}]
  BY DEF BeginPublish
<1>3. current[v] = NoEvent /\ f # NoEvent
  BY <1>1, OutboxAssumption DEF BeginPublish, LocalState, TypeOK
<1>4. \A w \in Workers : AtWork(w)' = AtWork(w)
  BY <1>1, <1>2, <1>3 DEF AtWork, TypeOK
<1>5. UNCHANGED <<token, claimToken>>
  BY DEF BeginPublish, row
<1>6. QED
  BY <1>4, <1>5, ClaimsKept

\* A marked row is released, and the worker goes on with the rest of its batch.
LEMMA MarkReleases ==
  ASSUME IInv, ClaimsAtWork, NEW v \in Workers, MarkPublished(v)
  PROVE  ClaimsAtWork'
<1>1. TypeOK /\ LocalState
  BY DEF IInv
<1>2. current[v] \in Events /\ current[v] # NoEvent
  BY <1>1, OutboxAssumption DEF MarkPublished, LocalState
<1>3. \A e \in Events : claimToken'[e] = IF e = current[v] THEN NoToken ELSE claimToken[e]
  BY <1>1 DEF MarkPublished, TypeOK
<1> SUFFICES ASSUME NEW w \in Workers, NEW e \in Events,
                    token'[w] # NoToken, claimToken'[e] = token'[w]
             PROVE  e \in AtWork(w)'
  BY DEF ClaimsAtWork
<1>4. token'[w] = token[w] /\ e # current[v] /\ claimToken[e] = token[w]
  BY <1>1, <1>3 DEF MarkPublished, Leave, TypeOK
<1>5. e \in AtWork(w)
  BY <1>4 DEF ClaimsAtWork
<1>6. CASE w = v
  <2>1. batch'[w] = batch[w]
    BY <1>1, <1>4, <1>6 DEF MarkPublished, Leave, TypeOK
  <2>2. QED
    BY <1>4, <1>5, <1>6, <2>1 DEF AtWork
<1>7. CASE w # v
  BY <1>1, <1>5, <1>7 DEF MarkPublished, Leave, AtWork, TypeOK
<1>8. QED
  BY <1>6, <1>7

LEMMA NextAtWork == IInv /\ ClaimsAtWork /\ [Next]_vars => ClaimsAtWork'
<1> SUFFICES ASSUME IInv, ClaimsAtWork, [Next]_vars PROVE ClaimsAtWork'
  OBVIOUS
<1>1. TypeOK
  BY DEF IInv
<1>2. ASSUME NEW w \in Workers, Start(w) PROVE ClaimsAtWork'
  BY <1>2, ClaimGivesAll DEF Start
<1>3. ASSUME NEW w \in Workers, BeginPublish(w) PROVE ClaimsAtWork'
  BY <1>3, CallHolds
<1>4. ASSUME NEW w \in Workers, MarkPublished(w) PROVE ClaimsAtWork'
  BY <1>4, MarkReleases
<1>5. ASSUME NEW w \in Workers,
             \/ PublishConfirmed(w) \/ PublishTryFails(w) \/ PublishRefused(w) \/ Restart(w)
      PROVE  ClaimsAtWork'
  BY <1>5, ClaimsKept
     DEF PublishConfirmed, PublishTryFails, PublishRefused, Restart, row, AtWork
<1>6. ASSUME NEW w \in Workers,
             MarkFailed(w) \/ ClaimLost(w) \/ FlushAborts(w) \/ Crash(w)
      PROVE  ClaimsAtWork'
  <2>1. Leave(w, "down")
    BY <1>6 DEF MarkFailed, ClaimLost, FlushAborts, Crash
  <2>2. \A v \in Workers : \/ token'[v] = NoToken
                           \/ token'[v] = token[v] /\ AtWork(v)' = AtWork(v)
    BY <1>1, <2>1 DEF Leave, AtWork, TypeOK
  <2>3. \A e \in Events : claimToken'[e] \in {claimToken[e], NoToken}
    BY <1>1, <1>6 DEF MarkFailed, ClaimLost, FlushAborts, Crash, row, TypeOK
  <2>4. QED
    BY <2>2, <2>3, ClaimsKept
<1>7. CASE \/ \E e \in Events : Enqueue(e)
           \/ \E t \in Tokens : LeaseLapses(t) \/ LeaseOverrun(t)
           \/ UNCHANGED vars
  BY <1>7, ClaimsKept DEF Enqueue, LeaseLapses, LeaseOverrun, vars, row, worker, AtWork
<1>8. QED
  BY <1>2, <1>3, <1>4, <1>5, <1>6, <1>7 DEF Next, Continue

\* Of relay_once and the lease: no live worker keeps a claim on a row that it has
\* forgotten, whichever way it left the rest of its batch, so that a row is never
\* withheld from the others for longer than a worker is at it or a lease runs.
THEOREM ClaimsAtWorkHolds == Spec => []ClaimsAtWork
<1>1. Init => ClaimsAtWork
  BY DEF Init, ClaimsAtWork
<1>2. QED
  BY <1>1, NextAtWork, IInvHolds, PTL DEF Spec
=============================================================================
