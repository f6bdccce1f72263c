------------------------ MODULE ModelLifecycleProofs ------------------------
(***************************************************************************)
(* The safety of ModelLifecycle for any number of runs, versions, tickets, *)
(* requests and scoring processes.  The argument: what a registration      *)
(* checked and wrote never changes, so its row is sound when it is         *)
(* inserted and stays so; a promotion's time is later than that of every   *)
(* promotion it knew; and scoring only uses the package of such a row.     *)
(*                                                                         *)
(* Then the store it rests on: the lifecycle takes no step that the        *)
(* write-once store forbids, and ArtifactStore, for any processes, names   *)
(* and payloads, implements that store.                                    *)
(***************************************************************************)
EXTENDS ModelLifecycle, ArtifactStore, TLAPS

\* The inductive invariant holds of an empty registry.
LEMMA InitIInv == Init => IInv
<1> SUFFICES ASSUME Init PROVE IInv  OBVIOUS
<1>1. TypeOK  BY DEF Init, TypeOK
<1>2. EvaluationsHonest  BY DEF Init, EvaluationsHonest
<1>3. RegistrationsBacked  BY DEF Init, RegistrationsBacked
<1>4. RowsSound  BY DEF Init, RowsSound
<1>5. PromotionsOrdered  BY DEF Init, PromotionsOrdered
<1>6. AssignmentsOrdered  BY DEF Init, AssignmentsOrdered
<1>7. LookingServing  BY DEF Init, LookingServing
<1>8. ScoresTraceable  BY DEF Init, ScoresTraceable
<1>9. CardsApart  BY DEF Init, CardsApart
<1>10. CachesVerified  BY DEF Init, CachesVerified
<1>11. QED  BY <1>1, <1>2, <1>3, <1>4, <1>5, <1>6, <1>7, <1>8, <1>9, <1>10 DEF IInv

-----------------------------------------------------------------------------
(***************************************************************************)
(* What a step that leaves a part alone keeps.                             *)
(***************************************************************************)

\* Rows are never changed or removed.
RowsPersist == \A n \in Name : registry[n] # None => registry'[n] = registry[n]

\* Evaluations are never changed or removed.
EvaluationsPersist == \A e \in Evals : evaluated[e] # None => evaluated'[e] = evaluated[e]

\* Assignments are never changed or removed.
AssignmentsPersist == \A t \in Tickets : assigned[t] # None => assigned'[t] = assigned[t]

\* The name of an assignment's version is a name of the registry.
LEMMA AssignedName ==
  ASSUME TypeOK, NEW t \in Tickets, assigned[t] # None
  PROVE  <<assigned[t].model, assigned[t].version>> \in Name
BY DEF TypeOK, Assignment, Name

\* Promotions and scoring do not touch what registrations rely on.
LEMMA LifecycleFrame ==
  ASSUME IInv, UNCHANGED <<artifacts, lifecycle>>
  PROVE  EvaluationsHonest' /\ RegistrationsBacked' /\ CardsApart' /\ RowsSound'
<1>1. UNCHANGED <<cards, packages, trained, evaluated, registry, registering>>
  BY DEF artifacts, lifecycle
<1>2. EvaluationsHonest'  BY <1>1 DEF IInv, EvaluationsHonest
<1>3. RegistrationsBacked'
  BY <1>1 DEF IInv, RegistrationsBacked, RegistrationBacked, Registrable, NameOf, SignedPackage
<1>4. RowsSound'  BY <1>1 DEF IInv, RowsSound, RowSound
<1>5. CardsApart'  BY <1>1 DEF IInv, CardsApart
<1>6. QED  BY <1>2, <1>3, <1>4, <1>5

\* Training, registration and scoring do not touch the promotions' order.
LEMMA PromotionsFrame ==
  ASSUME IInv, UNCHANGED promotions, RowsPersist
  PROVE  PromotionsOrdered' /\ AssignmentsOrdered'
<1>1. UNCHANGED <<clock, promoting, assigned, outbox>>  BY DEF promotions
<1>2. TypeOK /\ PromotionsOrdered /\ AssignmentsOrdered  BY DEF IInv
<1>3. PromotionsOrdered'  BY <1>1, <1>2 DEF PromotionsOrdered, KnownEarlier
<1>4. ASSUME NEW t \in Tickets, assigned[t] # None PROVE RowOf(t)' # None
  BY <1>1, <1>2, <1>4, AssignedName DEF AssignmentsOrdered, RowOf, RowsPersist
<1>5. AssignmentsOrdered'  BY <1>1, <1>2, <1>4 DEF AssignmentsOrdered, KnownEarlier
<1>6. QED  BY <1>3, <1>5

\* An assignment that scoring may use stays one.
LEMMA ServingPersists ==
  ASSUME AssignmentsPersist PROVE Serving \subseteq Serving'
BY DEF AssignmentsPersist, Serving

\* A prediction that could be audited can be audited for ever.
LEMMA TraceablePersists ==
  ASSUME IInv, RowsPersist, EvaluationsPersist, AssignmentsPersist,
         NEW prediction \in [version : Versions, package : Package], Traceable(prediction)
  PROVE  Traceable(prediction)'
<1> DEFINE n == <<ServedModel, prediction.version>>
<1>1. n \in Name  BY ConstantsAssumption DEF Name
<1>2. registry[n] # None /\ registry'[n] = registry[n]
  BY <1>1 DEF Traceable, RowsPersist
<1>3. registry[n].eval \in Evals /\ registry[n].run \in Runs
  BY <1>1, <1>2 DEF IInv, TypeOK, Row
<1>4. evaluated'[registry[n].eval] = evaluated[registry[n].eval]
  <2>1. evaluated[registry[n].eval] = [run |-> registry[n].run, passed |-> TRUE]
    BY DEF Traceable
  <2>2. [run |-> registry[n].run, passed |-> TRUE] \in Evaluation  BY <1>3 DEF Evaluation
  <2>3. QED  BY <1>3, <2>1, <2>2, NoneAssumption DEF EvaluationsPersist
<1>5. \E t \in Serving' : assigned'[t].version = prediction.version
  <2>1. PICK t \in Serving : assigned[t].version = prediction.version  BY DEF Traceable
  <2>2. t \in Tickets /\ assigned[t] # None  BY <2>1 DEF Serving
  <2>3. t \in Serving' /\ assigned'[t] = assigned[t]
    BY <2>1, <2>2, ServingPersists DEF AssignmentsPersist
  <2>4. QED  BY <2>1, <2>3
<1>6. QED  BY <1>2, <1>4, <1>5 DEF Traceable

\* A step outside scoring keeps what scoring did and what it is about to use.
LEMMA ScoringFrame ==
  ASSUME IInv, UNCHANGED scoring, RowsPersist, EvaluationsPersist, AssignmentsPersist
  PROVE  LookingServing' /\ CachesVerified' /\ ScoresTraceable'
<1>1. UNCHANGED <<publicKey, cache, looking, scored>>  BY DEF scoring
<1>2. TypeOK /\ LookingServing /\ ScoresTraceable  BY DEF IInv
<1>3. LookingServing'  BY <1>1, <1>2, ServingPersists DEF LookingServing
<1>4. ScoresTraceable'
  BY <1>1, <1>2, TraceablePersists DEF ScoresTraceable, TypeOK
<1>5. CachesVerified'  BY <1>1 DEF IInv, CachesVerified
<1>6. QED  BY <1>3, <1>4, <1>5

-----------------------------------------------------------------------------
(***************************************************************************)
(* One lemma per action.                                                   *)
(***************************************************************************)

\* A training run adds a row that nothing refers to yet.
LEMMA TrainKeeps ==
  ASSUME IInv, NEW r \in Runs, Train(r)
  PROVE  IInv'
<1>1. /\ trained' = trained \cup {r}
      /\ UNCHANGED <<cards, packages, evaluated, registry, registering>>
      /\ UNCHANGED promotions /\ UNCHANGED scoring
  BY DEF Train, artifacts
<1>2. RowsPersist /\ EvaluationsPersist /\ AssignmentsPersist
  BY <1>1 DEF RowsPersist, EvaluationsPersist, AssignmentsPersist, promotions
<1>3. TypeOK'  BY <1>1 DEF IInv, TypeOK, promotions, scoring
<1>4. EvaluationsHonest'  BY <1>1 DEF IInv, EvaluationsHonest
<1>5. RegistrationsBacked'
  BY <1>1 DEF IInv, RegistrationsBacked, RegistrationBacked, Registrable, NameOf, SignedPackage
<1>6. RowsSound'  BY <1>1 DEF IInv, RowsSound, RowSound
<1>7. CardsApart'  BY <1>1 DEF IInv, CardsApart
<1>8. QED
  BY <1>1, <1>2, <1>3, <1>4, <1>5, <1>6, <1>7, PromotionsFrame, ScoringFrame DEF IInv

\* An evaluation is the verdict on a run that is there; no row refers to it yet.
LEMMA EvaluateKeeps ==
  ASSUME IInv, NEW e \in Evals, NEW r \in Runs, Evaluate(e, r)
  PROVE  IInv'
<1> DEFINE verdict == [run |-> r, passed |-> TrainRequest[r].data \in PassingData]
<1>1. /\ evaluated[e] = None /\ r \in trained
      /\ evaluated' = [evaluated EXCEPT ![e] = verdict]
      /\ UNCHANGED <<cards, packages, trained, registry, registering>>
      /\ UNCHANGED promotions /\ UNCHANGED scoring
  BY DEF Evaluate, artifacts
<1>2. verdict \in Evaluation  BY DEF Evaluation
<1>3. TypeOK /\ EvaluationsHonest /\ RegistrationsBacked /\ RowsSound  BY DEF IInv
<1>4. \A f \in Evals : f # e => evaluated'[f] = evaluated[f]  BY <1>1, <1>3 DEF TypeOK
<1>5. evaluated'[e] = verdict  BY <1>1, <1>3 DEF TypeOK
<1>6. RowsPersist /\ EvaluationsPersist /\ AssignmentsPersist
  BY <1>1, <1>4 DEF RowsPersist, EvaluationsPersist, AssignmentsPersist, promotions
<1>7. TypeOK'
  <2>1. evaluated' \in [Evals -> Evaluation \cup {None}]  BY <1>1, <1>2, <1>3 DEF TypeOK
  <2>2. QED  BY <1>1, <1>3, <2>1 DEF TypeOK, promotions, scoring
<1>8. EvaluationsHonest'
  <2>1. SUFFICES ASSUME NEW f \in Evals, evaluated'[f] # None
                 PROVE  /\ evaluated'[f].run \in trained
                        /\ evaluated'[f].passed = (TrainRequest[evaluated'[f].run].data \in PassingData)
    BY <1>1 DEF EvaluationsHonest
  <2>2. CASE f = e  BY <1>1, <1>5, <2>2
  <2>3. CASE f # e  BY <1>3, <1>4, <2>1, <2>3 DEF EvaluationsHonest
  <2>4. QED  BY <2>2, <2>3
<1>9. RegistrationsBacked'
  <2>1. SUFFICES ASSUME NEW c \in Registrars, registering[c] # None
                 PROVE  RegistrationBacked(c)'
    BY <1>1 DEF RegistrationsBacked
  <2>2. RegistrationBacked(c)  BY <1>3, <2>1 DEF RegistrationsBacked
  <2>3. registering[c].req.eval \in Evals
    BY <1>3, <2>1 DEF TypeOK, Registration, Request
  <2>4. evaluated'[registering[c].req.eval] = evaluated[registering[c].req.eval]
    BY <1>6, <2>2, <2>3 DEF RegistrationBacked, Registrable, EvaluationsPersist
  <2>5. QED
    BY <1>1, <2>2, <2>4 DEF RegistrationBacked, Registrable, NameOf, SignedPackage
<1>10. RowsSound'
  <2>1. SUFFICES ASSUME NEW n \in Name, registry[n] # None
                 PROVE  (RowSound(n, registry[n]))'
    BY <1>1 DEF RowsSound
  <2>2. RowSound(n, registry[n]) /\ registry[n] \in Row  BY <1>3, <2>1 DEF RowsSound, TypeOK
  <2>3. registry[n].eval # e
    <3>1. [run |-> registry[n].run, passed |-> TRUE] \in Evaluation
      BY <2>2 DEF Row, Evaluation
    <3>2. QED  BY <1>1, <2>2, <3>1, NoneAssumption DEF RowSound
  <2>4. evaluated'[registry[n].eval] = evaluated[registry[n].eval]
    BY <1>4, <2>2, <2>3 DEF Row
  <2>5. QED  BY <1>1, <2>2, <2>4 DEF RowSound
<1>11. CardsApart'  BY <1>1 DEF IInv, CardsApart
<1>12. QED
  BY <1>1, <1>6, <1>7, <1>8, <1>9, <1>10, <1>11, PromotionsFrame, ScoringFrame DEF IInv

\* What a registration step outside the registry leaves alone.
LEMMA RegistrationFrame ==
  ASSUME IInv, UNCHANGED <<trained, evaluated, registry, promotions, scoring>>
  PROVE  /\ EvaluationsHonest' /\ PromotionsOrdered' /\ AssignmentsOrdered'
         /\ LookingServing' /\ CachesVerified' /\ ScoresTraceable'
<1>1. RowsPersist /\ EvaluationsPersist /\ AssignmentsPersist
  BY DEF RowsPersist, EvaluationsPersist, AssignmentsPersist, promotions
<1>2. EvaluationsHonest'  BY DEF IInv, EvaluationsHonest
<1>3. QED  BY <1>1, <1>2, PromotionsFrame, ScoringFrame

\* Rows stay sound while cards they have are kept and packages only added.
LEMMA RowsFrame ==
  ASSUME IInv, UNCHANGED <<evaluated, registry>>, packages \subseteq packages',
         \A n \in Name : registry[n] # None => cards'[n] = cards[n]
  PROVE  RowsSound'
BY DEF IInv, RowsSound, RowSound

\* A registration under way stays backed while what it wrote is kept.
LEMMA BackedFrame ==
  ASSUME IInv, NEW c \in Registrars, registering[c] # None, registering'[c] = registering[c],
         UNCHANGED <<trained, evaluated>>, packages \subseteq packages',
         cards[NameOf(c)] # None => cards'[NameOf(c)] = cards[NameOf(c)]
  PROVE  RegistrationBacked(c)'
<1>1. RegistrationBacked(c) /\ TypeOK  BY DEF IInv, RegistrationsBacked
<1>2. registering[c].card \in Card  BY <1>1 DEF TypeOK, Registration
<1>3. registering[c].pc # "accepted" => cards[NameOf(c)] # None
  BY <1>1, <1>2, NoneAssumption DEF RegistrationBacked
<1>4. NameOf(c)' = NameOf(c)  BY DEF NameOf
<1>5. QED  BY <1>1, <1>3, <1>4 DEF RegistrationBacked, Registrable, SignedPackage

\* Cards stay apart while each registration under way keeps its own.
LEMMA CardsFrame ==
  ASSUME IInv,
         \A c \in Registrars : registering'[c] # None =>
            registering[c] # None /\ registering'[c].card = registering[c].card
  PROVE  CardsApart'
BY DEF IInv, CardsApart

\* The time a request reads is on no card: neither a stored one nor that of a
\* registration under way.
LEMMA NowIsNew ==
  ASSUME IInv, NewTimes # {}
  PROVE  /\ Now \in Times
         /\ \A c \in Registrars : registering[c] # None => registering[c].card.generated # Now
<1>1. Now \in NewTimes  BY DEF Now
<1>2. Now \in Times /\ Now \notin TimesSeen  BY <1>1 DEF NewTimes
<1>3. QED  BY <1>2 DEF TimesSeen

\* A request that passed the checks has written nothing yet.
LEMMA AcceptRegistrationKeeps ==
  ASSUME IInv, NEW c \in Registrars, NEW req \in Request, NEW env \in Environments,
         AcceptRegistration(c, req, env)
  PROVE  IInv'
<1> DEFINE started == [pc |-> "accepted", req |-> req, package |-> None,
                       card |-> [run |-> req.run, eval |-> req.eval, env |-> env,
                                 generated |-> Now]]
<1>1. /\ Registrable(req) /\ NewTimes # {}
      /\ registering' = [registering EXCEPT ![c] = started]
      /\ UNCHANGED <<cards, packages, trained, evaluated, registry, promotions, scoring>>
  BY DEF AcceptRegistration, artifacts
<1>2. TypeOK  BY DEF IInv
<1>3. started \in Registration  BY <1>1, NowIsNew DEF Registration, Request, Card
<1>4. registering' \in [Registrars -> Registration \cup {None}]
  BY <1>1, <1>2, <1>3 DEF TypeOK
<1>5. TypeOK'  BY <1>1, <1>2, <1>4 DEF TypeOK, promotions, scoring
<1>6. RegistrationsBacked'
  <2>1. SUFFICES ASSUME NEW q \in Registrars, registering'[q] # None
                 PROVE  RegistrationBacked(q)'
    BY DEF RegistrationsBacked
  <2>2. CASE q = c
    <3>1. registering'[q] = started  BY <1>1, <1>2, <2>2 DEF TypeOK
    <3>2. Registrable(req)'  BY <1>1 DEF Registrable
    <3>3. QED  BY <3>1, <3>2 DEF RegistrationBacked
  <2>3. CASE q # c
    <3>1. registering'[q] = registering[q]  BY <1>1, <1>2, <2>3 DEF TypeOK
    <3>2. QED  BY <1>1, <2>1, <3>1, BackedFrame
  <2>4. QED  BY <2>2, <2>3
<1>7. RowsSound'  BY <1>1, RowsFrame
<1>8. CardsApart'
  <2>1. started.card.generated = Now  OBVIOUS
  <2>2. ASSUME NEW q \in Registrars, q # c, registering'[q] # None
        PROVE  /\ registering[q] # None /\ registering'[q] = registering[q]
               /\ registering'[q].card # started.card
    <3>1. registering'[q] = registering[q]  BY <1>1, <1>2, <2>2 DEF TypeOK
    <3>2. registering[q].card.generated # Now  BY <1>1, <2>2, <3>1, NowIsNew
    <3>3. QED  BY <2>1, <2>2, <3>1, <3>2
  <2>3. registering'[c] = started  BY <1>1, <1>2 DEF TypeOK
  <2>4. SUFFICES ASSUME NEW q \in Registrars, NEW d \in Registrars, q # d,
                        registering'[q] # None, registering'[d] # None
                 PROVE  registering'[q].card # registering'[d].card
    BY DEF CardsApart
  <2>5. CASE q = c  BY <2>2, <2>3, <2>4, <2>5
  <2>6. CASE d = c  BY <2>2, <2>3, <2>4, <2>6
  <2>7. CASE q # c /\ d # c
    <3>1. registering[q].card # registering[d].card  BY <2>2, <2>4, <2>7 DEF IInv, CardsApart
    <3>2. QED  BY <2>2, <2>4, <2>7, <3>1
  <2>8. QED  BY <2>5, <2>6, <2>7
<1>9. QED  BY <1>1, <1>5, <1>6, <1>7, <1>8, RegistrationFrame DEF IInv

\* A card is created under a free name, so no card that is there changes.
LEMMA WriteCardKeeps ==
  ASSUME IInv, NEW c \in Registrars, WriteCard(c)
  PROVE  IInv'
<1> DEFINE card == registering[c].card
           carded == [registering[c] EXCEPT !.pc = "carded"]
<1>1. /\ registering[c] # None /\ registering[c].pc = "accepted"
      /\ cards[NameOf(c)] = None
      /\ cards' = [cards EXCEPT ![NameOf(c)] = card]
      /\ registering' = [registering EXCEPT ![c] = carded]
      /\ UNCHANGED <<packages, trained, evaluated, registry, promotions, scoring>>
  BY DEF WriteCard
<1>2. TypeOK /\ RegistrationsBacked /\ RowsSound  BY DEF IInv
<1>3. registering[c] \in Registration  BY <1>1, <1>2 DEF TypeOK
<1>4. card \in Card /\ NameOf(c) \in Name  BY <1>3 DEF Registration, NameOf, Request, Name
<1>5. carded \in Registration  BY <1>1, <1>3 DEF Registration
<1>6. /\ cards' \in [Name -> Card \cup {None}]
      /\ registering' \in [Registrars -> Registration \cup {None}]
  BY <1>1, <1>2, <1>4, <1>5 DEF TypeOK
<1>7. TypeOK'  BY <1>1, <1>2, <1>6 DEF TypeOK, promotions, scoring
<1>8. \A n \in Name : cards[n] # None => cards'[n] = cards[n]  BY <1>1, <1>2 DEF TypeOK
<1>9. RegistrationsBacked'
  <2>1. SUFFICES ASSUME NEW q \in Registrars, registering'[q] # None
                 PROVE  RegistrationBacked(q)'
    BY DEF RegistrationsBacked
  <2>2. CASE q = c
    <3>1. registering'[q] = carded  BY <1>1, <1>2, <2>2 DEF TypeOK
    <3>2. /\ carded.req = registering[c].req /\ carded.card = card /\ carded.pc = "carded"
      BY <1>3 DEF Registration
    <3>3. NameOf(q)' = NameOf(c)  BY <3>1, <3>2 DEF NameOf
    <3>4. cards'[NameOf(c)] = card  BY <1>1, <1>2, <1>4 DEF TypeOK
    <3>5. RegistrationBacked(c)  BY <1>1, <1>2 DEF RegistrationsBacked
    <3>6. registering'[q].req = registering[c].req /\ registering'[q].card = card
          /\ registering'[q].pc = "carded"
      BY <3>1, <3>2
    <3>7. QED  BY <1>1, <3>3, <3>4, <3>5, <3>6 DEF RegistrationBacked, Registrable
  <2>3. CASE q # c
    <3>1. registering'[q] = registering[q] /\ registering[q] # None
      BY <1>1, <1>2, <2>1, <2>3 DEF TypeOK
    <3>2. NameOf(q) \in Name
      BY <1>2, <3>1 DEF TypeOK, Registration, NameOf, Request, Name
    <3>3. QED  BY <1>1, <1>8, <3>1, <3>2, BackedFrame
  <2>4. QED  BY <2>2, <2>3
<1>10. RowsSound'
  <2>1. \A n \in Name : registry[n] # None => cards[n] # None
    <3>1. SUFFICES ASSUME NEW n \in Name, registry[n] # None PROVE cards[n] # None
      OBVIOUS
    <3>2. registry[n] \in Row /\ cards[n] = registry[n].card
      BY <1>2, <3>1 DEF RowsSound, RowSound, TypeOK
    <3>3. QED  BY <3>2, NoneAssumption DEF Row
  <2>2. QED  BY <1>1, <1>8, <2>1, RowsFrame
<1>11. CardsApart'
  <2>1. carded.card = card  BY <1>3 DEF Registration
  <2>2. QED  BY <1>1, <1>2, <2>1, CardsFrame DEF TypeOK
<1>12. QED  BY <1>1, <1>7, <1>9, <1>10, <1>11, RegistrationFrame DEF IInv

\* The package a registration signs is that of its run and version.
LEMMA WritePackageKeeps ==
  ASSUME IInv, NEW c \in Registrars, NEW key \in Keys, WritePackage(c, key)
  PROVE  IInv'
<1> DEFINE signed == SignedPackage(registering[c].req, key)
           done == [registering[c] EXCEPT !.pc = "signed", !.package = signed]
<1>1. /\ registering[c] # None /\ registering[c].pc = "carded"
      /\ packages' = packages \cup {<<NameOf(c), signed>>}
      /\ registering' = [registering EXCEPT ![c] = done]
      /\ UNCHANGED <<cards, trained, evaluated, registry, promotions, scoring>>
  BY DEF WritePackage
<1>2. TypeOK /\ RegistrationsBacked  BY DEF IInv
<1>3. registering[c] \in Registration  BY <1>1, <1>2 DEF TypeOK
<1>4. registering[c].req \in Request /\ NameOf(c) \in Name
  BY <1>3 DEF Registration, NameOf, Request, Name
<1>5. signed \in Package
  BY <1>4, ConstantsAssumption DEF SignedPackage, Package, Request
<1>6. done \in Registration  BY <1>1, <1>3, <1>5 DEF Registration
<1>7. /\ packages' \subseteq Name \X Package
      /\ registering' \in [Registrars -> Registration \cup {None}]
  <2>1. packages' \subseteq Name \X Package  BY <1>1, <1>2, <1>4, <1>5 DEF TypeOK
  <2>2. registering' \in [Registrars -> Registration \cup {None}]
    BY <1>1, <1>2, <1>6 DEF TypeOK
  <2>3. QED  BY <2>1, <2>2
<1>8. TypeOK'  BY <1>1, <1>2, <1>7 DEF TypeOK, promotions, scoring
<1>9. RegistrationsBacked'
  <2>1. SUFFICES ASSUME NEW q \in Registrars, registering'[q] # None
                 PROVE  RegistrationBacked(q)'
    BY DEF RegistrationsBacked
  <2>2. CASE q = c
    <3>1. registering'[q] = done  BY <1>1, <1>2, <2>2 DEF TypeOK
    <3>2. /\ done.req = registering[c].req /\ done.card = registering[c].card
          /\ done.pc = "signed" /\ done.package = signed
      BY <1>3 DEF Registration
    <3>3. NameOf(q)' = NameOf(c)  BY <3>1, <3>2 DEF NameOf
    <3>4. RegistrationBacked(c)  BY <1>1, <1>2 DEF RegistrationsBacked
    <3>5. registering'[q].req = registering[c].req
          /\ registering'[q].card = registering[c].card
          /\ registering'[q].package = signed
      BY <3>1, <3>2
    <3>6. cards'[NameOf(c)] = registering[c].card  BY <1>1, <3>4 DEF RegistrationBacked
    <3>7. registering'[q].package = SignedPackage(registering'[q].req, registering'[q].package.key)
      BY <3>5 DEF SignedPackage
    <3>8. <<NameOf(c), signed>> \in packages'  BY <1>1
    <3>9. (Registrable(registering[q].req))'
      BY <1>1, <3>4, <3>5 DEF RegistrationBacked, Registrable
    <3>10. /\ registering'[q].card.run = registering'[q].req.run
           /\ registering'[q].card.eval = registering'[q].req.eval
      BY <3>4, <3>5 DEF RegistrationBacked
    <3>11. (registering[q].package = SignedPackage(registering[q].req, registering[q].package.key))'
      BY <3>7 DEF SignedPackage
    <3>12. (<<NameOf(q), registering[q].package>> \in packages)'
      BY <3>3, <3>5, <3>8
    <3>13. (cards[NameOf(q)] = registering[q].card)'
      BY <3>3, <3>5, <3>6
    <3>14. QED  BY <3>9, <3>10, <3>11, <3>12, <3>13 DEF RegistrationBacked
  <2>3. CASE q # c
    <3>1. registering'[q] = registering[q]  BY <1>1, <1>2, <2>3 DEF TypeOK
    <3>2. QED  BY <1>1, <2>1, <3>1, BackedFrame
  <2>4. QED  BY <2>2, <2>3
<1>10. RowsSound'  BY <1>1, RowsFrame
<1>11. CardsApart'
  <2>1. done.card = registering[c].card  BY <1>3 DEF Registration
  <2>2. QED  BY <1>1, <1>2, <2>1, CardsFrame DEF TypeOK
<1>12. QED  BY <1>1, <1>8, <1>9, <1>10, <1>11, RegistrationFrame DEF IInv

\* The other registrations are as they were when one of them ends.
LEMMA EndingKeepsOthers ==
  ASSUME IInv, NEW c \in Registrars, registering' = [registering EXCEPT ![c] = None],
         UNCHANGED <<cards, packages, trained, evaluated>>
  PROVE  /\ RegistrationsBacked' /\ CardsApart'
         /\ registering' \in [Registrars -> Registration \cup {None}]
<1>1. TypeOK  BY DEF IInv
<1>2. registering' \in [Registrars -> Registration \cup {None}]  BY <1>1 DEF TypeOK
<1>3. ASSUME NEW q \in Registrars, registering'[q] # None
      PROVE  RegistrationBacked(q)'
  <2>1. registering'[q] = registering[q] /\ registering[q] # None  BY <1>1, <1>3 DEF TypeOK
  <2>2. QED  BY <2>1, BackedFrame
<1>4. CardsApart'  BY <1>1, CardsFrame DEF TypeOK
<1>5. QED  BY <1>2, <1>3, <1>4 DEF RegistrationsBacked

\* The row of a signed registration is sound.
LEMMA NewRowSound ==
  ASSUME IInv, NEW c \in Registrars, registering[c] # None, registering[c].pc = "signed"
  PROVE  /\ NameOf(c) \in Name
         /\ RowFor(registering[c]) \in Row
         /\ RowSound(NameOf(c), RowFor(registering[c]))
<1> DEFINE doing == registering[c]
           n == NameOf(c)
           row == RowFor(doing)
<1>1. TypeOK /\ RegistrationBacked(c) /\ EvaluationsHonest
  BY DEF IInv, RegistrationsBacked
<1>2. doing \in Registration  BY <1>1 DEF TypeOK
<1>3. doing.req \in Request /\ doing.card \in Card /\ doing.package \in Package
  BY <1>2 DEF Registration
<1>4. n \in Name /\ n[2] = doing.req.version  BY <1>3 DEF NameOf, Request, Name
<1>5. row \in Row  BY <1>3 DEF RowFor, Row, Request
<1>6. /\ row.run = doing.req.run /\ row.eval = doing.req.eval /\ row.spec = doing.req.spec
      /\ row.package = doing.package /\ row.card = doing.card
  BY DEF RowFor
<1>7. evaluated[row.eval] = [run |-> row.run, passed |-> TRUE]
  <2>1. evaluated[row.eval] \in Evaluation
    BY <1>1, <1>3, <1>6 DEF TypeOK, RegistrationBacked, Registrable, Request
  <2>2. evaluated[row.eval].run = row.run /\ evaluated[row.eval].passed
    BY <1>1, <1>6 DEF RegistrationBacked, Registrable
  <2>3. evaluated[row.eval].passed = TRUE  BY <2>1, <2>2 DEF Evaluation
  <2>4. QED  BY <2>1, <2>2, <2>3 DEF Evaluation
<1>8. /\ cards[n] = row.card
      /\ <<n, row.package>> \in packages
      /\ row.card.run = row.run /\ row.card.eval = row.eval
  BY <1>1, <1>6 DEF RegistrationBacked
<1>9. row.spec = TrainRequest[row.run].spec
  BY <1>1, <1>6 DEF RegistrationBacked, Registrable
<1>10. row.package = [model |-> TrainRequest[row.run].model, data |-> TrainRequest[row.run].data,
                      spec |-> TrainRequest[row.run].spec, version |-> n[2],
                      key |-> row.package.key]
  BY <1>1, <1>4, <1>6 DEF RegistrationBacked, SignedPackage
<1>11. RowSound(n, row)  BY <1>7, <1>8, <1>9, <1>10 DEF RowSound
<1>12. QED  BY <1>4, <1>5, <1>11

\* An insert adds the row of a signed registration and changes none.
LEMMA InsertRowKeeps ==
  ASSUME IInv, NEW c \in Registrars, InsertRow(c)
  PROVE  IInv'
<1> DEFINE n == NameOf(c)
           row == RowFor(registering[c])
<1>1. /\ registering[c] # None /\ registering[c].pc = "signed"
      /\ registry' = [registry EXCEPT ![n] = IF @ = None THEN row ELSE @]
      /\ registering' = [registering EXCEPT ![c] = None]
      /\ UNCHANGED <<cards, packages, trained, evaluated, promotions, scoring>>
  BY DEF InsertRow, artifacts
<1>2. TypeOK /\ EvaluationsHonest /\ RowsSound  BY DEF IInv
<1>3. n \in Name /\ row \in Row  BY <1>1, NewRowSound
<1>4. registry' \in [Name -> Row \cup {None}]  BY <1>1, <1>2, <1>3 DEF TypeOK
<1>5. RowsPersist /\ EvaluationsPersist /\ AssignmentsPersist
  BY <1>1, <1>2 DEF RowsPersist, EvaluationsPersist, AssignmentsPersist, promotions, TypeOK
<1>6. /\ RegistrationsBacked' /\ CardsApart'
      /\ registering' \in [Registrars -> Registration \cup {None}]
  BY <1>1, EndingKeepsOthers
<1>7. TypeOK'  BY <1>1, <1>2, <1>4, <1>6 DEF TypeOK, promotions, scoring
<1>8. EvaluationsHonest'  BY <1>1, <1>2 DEF EvaluationsHonest
<1>9. RowsSound'
  <2>1. SUFFICES ASSUME NEW m \in Name, registry'[m] # None PROVE (RowSound(m, registry[m]))'
    BY DEF RowsSound
  <2>0. UNCHANGED <<cards, packages, evaluated>>  BY <1>1
  <2>2. CASE registry[m] # None
    <3>1. RowSound(m, registry[m])  BY <1>2, <2>2 DEF RowsSound
    <3>2. registry'[m] = registry[m]  BY <1>5, <2>2 DEF RowsPersist
    <3>3. QED  BY <2>0, <3>1, <3>2 DEF RowSound
  <2>3. CASE registry[m] = None
    <3>1. m = n /\ registry'[m] = row  BY <1>1, <1>2, <2>1, <2>3 DEF TypeOK
    <3>2. RowSound(n, row)  BY <1>1, NewRowSound
    <3>3. QED  BY <2>0, <3>1, <3>2 DEF RowSound
  <2>4. QED  BY <2>2, <2>3
<1>10. QED  BY <1>1, <1>5, <1>6, <1>7, <1>8, <1>9, PromotionsFrame, ScoringFrame DEF IInv

\* A registration that is given up leaves what it wrote.
LEMMA AbandonRegistrationKeeps ==
  ASSUME IInv, NEW c \in Registrars, AbandonRegistration(c)
  PROVE  IInv'
<1>1. /\ registering' = [registering EXCEPT ![c] = None]
      /\ UNCHANGED <<cards, packages, trained, evaluated, registry, promotions, scoring>>
  BY DEF AbandonRegistration, artifacts
<1>2. /\ RegistrationsBacked' /\ CardsApart'
      /\ registering' \in [Registrars -> Registration \cup {None}]
  BY <1>1, EndingKeepsOthers
<1>3. TypeOK'  BY <1>1, <1>2 DEF IInv, TypeOK, promotions, scoring
<1>4. RowsSound'  BY <1>1, RowsFrame
<1>5. QED  BY <1>1, <1>2, <1>3, <1>4, RegistrationFrame DEF IInv

-----------------------------------------------------------------------------
\* What a promotion step leaves alone: nothing that was assigned changes.
LEMMA PromotionFrame ==
  ASSUME IInv, UNCHANGED <<artifacts, lifecycle, scoring>>, AssignmentsPersist
  PROVE  /\ EvaluationsHonest' /\ RegistrationsBacked' /\ CardsApart' /\ RowsSound'
         /\ LookingServing' /\ CachesVerified' /\ ScoresTraceable'
<1>1. RowsPersist /\ EvaluationsPersist
  BY DEF RowsPersist, EvaluationsPersist, lifecycle
<1>2. QED  BY <1>1, LifecycleFrame, ScoringFrame

\* Times that were read, and what was known at them, are later than before.
LEMMA OrderArithmetic ==
  ASSUME NEW at \in Nat, NEW committed \in Nat, NEW now \in Nat, NEW ahead \in 0..MaxSkew,
         at <= committed + MaxSkew, committed + MaxSkew < now
  PROVE  at < now + ahead
BY ConstantsAssumption

\* A promotion that begins reads a time later than all it knows.
LEMMA BeginPromotionKeeps ==
  ASSUME IInv, NEW p \in Promoters, NEW t \in Tickets, NEW name \in Name, NEW stage \in Stages,
         BeginPromotion(p, t, name, stage)
  PROVE  IInv'
<1> DEFINE known == {u \in Tickets : assigned[u] # None /\ assigned[u].committed + MaxSkew < clock}
           promotion == [model |-> name[1], version |-> name[2], stage |-> stage,
                         at |-> clock + Skew[p], known |-> known]
           begun == [ticket |-> t, promotion |-> promotion]
<1>1. /\ promoting' = [promoting EXCEPT ![p] = begun]
      /\ UNCHANGED <<artifacts, lifecycle, scoring>>
      /\ UNCHANGED <<clock, assigned, outbox>>
  BY DEF BeginPromotion
<1>2. TypeOK /\ PromotionsOrdered /\ AssignmentsOrdered  BY DEF IInv
<1>3. Skew[p] \in 0..MaxSkew /\ MaxSkew \in Nat /\ clock \in Nat
  BY <1>2, ConstantsAssumption DEF TypeOK
<1>4. clock + Skew[p] \in Nat /\ clock + Skew[p] <= clock + MaxSkew  BY <1>3
<1>5. begun \in Promoting
  BY <1>4 DEF Promoting, Promotion, Name
<1>6. promoting' \in [Promoters -> Promoting \cup {None}]  BY <1>1, <1>2, <1>5 DEF TypeOK
<1>7. TypeOK'  BY <1>1, <1>2, <1>6 DEF TypeOK, artifacts, lifecycle, scoring
<1>8. \A u \in known : assigned[u] # None /\ assigned[u].at < clock + Skew[p]
  <2>1. SUFFICES ASSUME NEW u \in known
                 PROVE  assigned[u] # None /\ assigned[u].at < clock + Skew[p]
    OBVIOUS
  <2>2. u \in Tickets /\ assigned[u] # None /\ assigned[u].committed + MaxSkew < clock
    OBVIOUS
  <2>3. assigned[u].at \in Nat /\ assigned[u].committed \in Nat
    BY <1>2, <2>2 DEF TypeOK, Assignment
  <2>4. assigned[u].at <= assigned[u].committed + MaxSkew
    BY <1>2, <2>2 DEF AssignmentsOrdered
  <2>5. QED  BY <1>3, <2>2, <2>3, <2>4, OrderArithmetic
<1>9. PromotionsOrdered'
  <2>1. SUFFICES ASSUME NEW q \in Promoters, promoting'[q] # None
                 PROVE  /\ promoting'[q].promotion.at <= clock + MaxSkew
                        /\ \A u \in promoting'[q].promotion.known :
                              assigned[u] # None /\ assigned[u].at < promoting'[q].promotion.at
    BY <1>1 DEF PromotionsOrdered, KnownEarlier
  <2>2. CASE q = p
    <3>1. promoting'[q] = begun  BY <1>1, <1>2, <2>2 DEF TypeOK
    <3>2. /\ promoting'[q].promotion.at = clock + Skew[p]
          /\ promoting'[q].promotion.known = known
      BY <3>1
    <3>3. QED  BY <1>4, <1>8, <3>2
  <2>3. CASE q # p
    <3>1. promoting'[q] = promoting[q]  BY <1>1, <1>2, <2>3 DEF TypeOK
    <3>2. QED  BY <1>2, <2>1, <3>1 DEF PromotionsOrdered, KnownEarlier
  <2>4. QED  BY <2>2, <2>3
<1>10. AssignmentsOrdered'
  BY <1>1, <1>2 DEF AssignmentsOrdered, KnownEarlier, RowOf, lifecycle
<1>11. AssignmentsPersist  BY <1>1 DEF AssignmentsPersist
<1>12. QED  BY <1>1, <1>7, <1>9, <1>10, <1>11, PromotionFrame DEF IInv

\* A commit adds one assignment of a registered version under a fresh ticket.
LEMMA CommitPromotionKeeps ==
  ASSUME IInv, NEW p \in Promoters, CommitPromotion(p)
  PROVE  IInv'
<1> DEFINE t == promoting[p].ticket
           promotion == promoting[p].promotion
           new == Assigned(promotion)
<1>1. /\ promoting[p] # None
      /\ registry[<<promotion.model, promotion.version>>] # None
      /\ assigned[t] = None
      /\ assigned' = [assigned EXCEPT ![t] = new]
      /\ outbox' = outbox \cup {t}
      /\ promoting' = [promoting EXCEPT ![p] = None]
      /\ UNCHANGED <<artifacts, lifecycle, scoring>>
      /\ UNCHANGED clock
  BY DEF CommitPromotion
<1>2. TypeOK /\ PromotionsOrdered /\ AssignmentsOrdered  BY DEF IInv
<1>3. promoting[p] \in Promoting  BY <1>1, <1>2 DEF TypeOK
<1>4. t \in Tickets /\ promotion \in Promotion  BY <1>3 DEF Promoting
<1>5. new \in Assignment  BY <1>2, <1>4 DEF Assigned, Assignment, Promotion, TypeOK
<1>6. /\ assigned' \in [Tickets -> Assignment \cup {None}]
      /\ promoting' \in [Promoters -> Promoting \cup {None}]
  BY <1>1, <1>2, <1>4, <1>5 DEF TypeOK
<1>7. TypeOK'  BY <1>1, <1>2, <1>4, <1>6 DEF TypeOK, artifacts, lifecycle, scoring
<1>8. AssignmentsPersist  BY <1>1, <1>2, <1>4 DEF AssignmentsPersist, TypeOK
<1>9. ASSUME NEW known, NEW at, known \subseteq Tickets, KnownEarlier(known, at)
      PROVE  \A u \in known : assigned'[u] # None /\ assigned'[u].at < at
  BY <1>8, <1>9 DEF KnownEarlier, AssignmentsPersist
<1>10. PromotionsOrdered'
  <2>1. SUFFICES ASSUME NEW q \in Promoters, promoting'[q] # None
                 PROVE  /\ promoting'[q].promotion.at <= clock + MaxSkew
                        /\ \A u \in promoting'[q].promotion.known :
                              assigned'[u] # None /\ assigned'[u].at < promoting'[q].promotion.at
    BY <1>1 DEF PromotionsOrdered, KnownEarlier
  <2>2. promoting'[q] = promoting[q] /\ promoting[q] # None  BY <1>1, <1>2, <2>1 DEF TypeOK
  <2>3. promoting[q].promotion.known \subseteq Tickets
    BY <1>2, <2>2 DEF TypeOK, Promoting, Promotion
  <2>4. /\ promoting[q].promotion.at <= clock + MaxSkew
        /\ KnownEarlier(promoting[q].promotion.known, promoting[q].promotion.at)
    BY <1>2, <2>2 DEF PromotionsOrdered
  <2>5. QED  BY <1>9, <2>2, <2>3, <2>4
<1>11. AssignmentsOrdered'
  <2>1. UNCHANGED registry  BY <1>1 DEF lifecycle
  <2>2. SUFFICES ASSUME NEW u \in Tickets, assigned'[u] # None
                 PROVE  /\ registry[<<assigned'[u].model, assigned'[u].version>>] # None
                        /\ assigned'[u].at <= assigned'[u].committed + MaxSkew
                        /\ \A w \in assigned'[u].known :
                              assigned'[w] # None /\ assigned'[w].at < assigned'[u].at
    BY <2>1 DEF AssignmentsOrdered, KnownEarlier, RowOf
  <2>3. CASE u = t
    <3>1. assigned'[u] = new  BY <1>1, <1>2, <1>4, <2>3 DEF TypeOK
    <3>2. /\ assigned'[u].model = promotion.model /\ assigned'[u].version = promotion.version
          /\ assigned'[u].at = promotion.at /\ assigned'[u].known = promotion.known
          /\ assigned'[u].committed = clock
      BY <3>1 DEF Assigned
    <3>3. /\ promotion.at <= clock + MaxSkew
          /\ KnownEarlier(promotion.known, promotion.at)
          /\ promotion.known \subseteq Tickets
      BY <1>1, <1>2, <1>4 DEF PromotionsOrdered, Promotion
    <3>4. QED  BY <1>1, <1>9, <3>2, <3>3
  <2>4. CASE u # t
    <3>1. assigned'[u] = assigned[u] /\ assigned[u] # None
      BY <1>1, <1>2, <2>2, <2>4 DEF TypeOK
    <3>2. /\ registry[<<assigned[u].model, assigned[u].version>>] # None
          /\ assigned[u].at <= assigned[u].committed + MaxSkew
          /\ KnownEarlier(assigned[u].known, assigned[u].at)
          /\ assigned[u].known \subseteq Tickets
      BY <1>2, <3>1 DEF AssignmentsOrdered, RowOf, TypeOK, Assignment
    <3>3. QED  BY <1>9, <3>1, <3>2
  <2>5. QED  BY <2>3, <2>4
<1>12. QED  BY <1>1, <1>7, <1>8, <1>10, <1>11, PromotionFrame DEF IInv

\* A promotion that is given up leaves nothing.
LEMMA AbandonPromotionKeeps ==
  ASSUME IInv, NEW p \in Promoters, AbandonPromotion(p)
  PROVE  IInv'
<1>1. /\ promoting' = [promoting EXCEPT ![p] = None]
      /\ UNCHANGED <<artifacts, lifecycle, scoring>>
      /\ UNCHANGED <<clock, assigned, outbox>>
  BY DEF AbandonPromotion
<1>2. TypeOK /\ PromotionsOrdered /\ AssignmentsOrdered  BY DEF IInv
<1>3. TypeOK'  BY <1>1, <1>2 DEF TypeOK, artifacts, lifecycle, scoring
<1>4. PromotionsOrdered'  BY <1>1, <1>2 DEF PromotionsOrdered, KnownEarlier, TypeOK
<1>5. AssignmentsOrdered'
  BY <1>1, <1>2 DEF AssignmentsOrdered, KnownEarlier, RowOf, lifecycle
<1>6. AssignmentsPersist  BY <1>1 DEF AssignmentsPersist
<1>7. QED  BY <1>1, <1>3, <1>4, <1>5, <1>6, PromotionFrame DEF IInv

\* Time passing only loosens the bound on the times that were read.
LEMMA TickKeeps == ASSUME IInv, Tick PROVE IInv'
<1>1. /\ clock' = clock + 1
      /\ UNCHANGED <<artifacts, lifecycle, scoring>>
      /\ UNCHANGED <<promoting, assigned, outbox>>
  BY DEF Tick
<1>2. TypeOK /\ PromotionsOrdered /\ AssignmentsOrdered  BY DEF IInv
<1>3. TypeOK'  BY <1>1, <1>2 DEF TypeOK, artifacts, lifecycle, scoring
<1>4. PromotionsOrdered'
  <2>1. SUFFICES ASSUME NEW q \in Promoters, promoting[q] # None
                 PROVE  /\ promoting[q].promotion.at <= clock' + MaxSkew
                        /\ KnownEarlier(promoting[q].promotion.known, promoting[q].promotion.at)
    BY <1>1 DEF PromotionsOrdered, KnownEarlier
  <2>2. promoting[q].promotion.at \in Nat  BY <1>2, <2>1 DEF TypeOK, Promoting, Promotion
  <2>3. /\ promoting[q].promotion.at <= clock + MaxSkew
        /\ KnownEarlier(promoting[q].promotion.known, promoting[q].promotion.at)
    BY <1>2, <2>1 DEF PromotionsOrdered
  <2>4. clock \in Nat /\ MaxSkew \in Nat  BY <1>2, ConstantsAssumption DEF TypeOK
  <2>5. promoting[q].promotion.at <= (clock + 1) + MaxSkew  BY <2>2, <2>3, <2>4
  <2>6. QED  BY <1>1, <2>3, <2>5
<1>5. AssignmentsOrdered'
  BY <1>1, <1>2 DEF AssignmentsOrdered, KnownEarlier, RowOf, lifecycle
<1>6. AssignmentsPersist  BY <1>1 DEF AssignmentsPersist
<1>7. QED  BY <1>1, <1>3, <1>4, <1>5, <1>6, PromotionFrame DEF IInv

-----------------------------------------------------------------------------
\* What a scoring step leaves alone.
LEMMA ScoringStepFrame ==
  ASSUME IInv, UNCHANGED <<artifacts, lifecycle, promotions>>
  PROVE  /\ EvaluationsHonest' /\ RegistrationsBacked' /\ CardsApart' /\ RowsSound'
         /\ PromotionsOrdered' /\ AssignmentsOrdered'
         /\ Serving' = Serving
         /\ \A prediction : Traceable(prediction) => Traceable(prediction)'
<1>1. RowsPersist  BY DEF RowsPersist, lifecycle
<1>2. UNCHANGED <<registry, evaluated, assigned>>  BY DEF lifecycle, promotions
<1>3. Serving' = Serving  BY <1>2 DEF Serving
<1>4. \A prediction : Traceable(prediction) => Traceable(prediction)'
  BY <1>2, <1>3 DEF Traceable
<1>5. QED  BY <1>1, <1>3, <1>4, LifecycleFrame, PromotionsFrame

\* Scoring with the package of the active row can be audited, when that was
\* trained under the served name.
LEMMA PredictionTraceable ==
  ASSUME IInv, NEW t \in Serving, RowOf(t).package.model = ServedModel
  PROVE  /\ RowOf(t).package \in Package
         /\ Prediction(t, RowOf(t).package) \in [version : Versions, package : Package]
         /\ Traceable(Prediction(t, RowOf(t).package))
<1> DEFINE n == <<ServedModel, assigned[t].version>>
           row == registry[n]
           prediction == Prediction(t, row.package)
<1>1. t \in Tickets /\ assigned[t] # None /\ assigned[t].model = ServedModel  BY DEF Serving
<1>2. TypeOK /\ AssignmentsOrdered /\ RowsSound /\ EvaluationsHonest  BY DEF IInv
<1>3. assigned[t].version \in Versions /\ n \in Name
  BY <1>1, <1>2, ConstantsAssumption DEF TypeOK, Assignment, Name
<1>4. RowOf(t) = row /\ row # None  BY <1>1, <1>2 DEF RowOf, AssignmentsOrdered
<1>5. row \in Row /\ RowSound(n, row)  BY <1>2, <1>3, <1>4 DEF TypeOK, RowsSound
<1>6. row.package \in Package /\ row.run \in Runs /\ row.eval \in Evals  BY <1>5 DEF Row
<1>7. prediction.version = assigned[t].version /\ prediction.package = row.package
  BY DEF Prediction
<1>8. evaluated[row.eval] = [run |-> row.run, passed |-> TRUE]  BY <1>5 DEF RowSound
<1>9. row.package.data \in PassingData
  <2>1. evaluated[row.eval] # None
    <3>1. [run |-> row.run, passed |-> TRUE] \in Evaluation  BY <1>6 DEF Evaluation
    <3>2. QED  BY <1>8, <3>1, NoneAssumption
  <2>2. TrainRequest[row.run].data \in PassingData
    <3>1. evaluated[row.eval].passed = (TrainRequest[evaluated[row.eval].run].data \in PassingData)
      BY <1>2, <1>6, <2>1 DEF EvaluationsHonest
    <3>2. evaluated[row.eval].run = row.run /\ evaluated[row.eval].passed = TRUE  BY <1>8
    <3>3. QED  BY <3>1, <3>2
  <2>3. row.package.data = TrainRequest[row.run].data  BY <1>5 DEF RowSound
  <2>4. QED  BY <2>2, <2>3
<1>10. Traceable(prediction)
  <2>1. row.package.version = prediction.version  BY <1>5, <1>7 DEF RowSound
  <2>2. QED  BY <1>4, <1>7, <1>8, <1>9, <2>1 DEF Traceable
<1>11. prediction \in [version : Versions, package : Package]
  BY <1>3, <1>6 DEF Prediction
<1>12. QED  BY <1>4, <1>6, <1>10, <1>11

\* A request looks only at an assignment that serves.
LEMMA FindActiveKeeps ==
  ASSUME IInv, NEW s \in Scorers, FindActive(s)
  PROVE  IInv'
<1>1. PICK t \in Active : looking' = [looking EXCEPT ![s] = t]  BY DEF FindActive
<1>2. UNCHANGED <<artifacts, lifecycle, promotions>> /\ UNCHANGED <<publicKey, cache, scored>>
  BY DEF FindActive
<1>3. t \in Serving /\ t \in Tickets  BY DEF Active, Serving
<1>4. TypeOK /\ LookingServing /\ ScoresTraceable  BY DEF IInv
<1>5. TypeOK'  BY <1>1, <1>2, <1>3, <1>4 DEF TypeOK, artifacts, lifecycle, promotions
<1>6. LookingServing'  BY <1>1, <1>2, <1>3, <1>4, ScoringStepFrame DEF LookingServing, TypeOK
<1>7. ScoresTraceable'  BY <1>2, <1>4, ScoringStepFrame DEF ScoresTraceable
<1>8. CachesVerified'  BY <1>2 DEF IInv, CachesVerified
<1>9. QED  BY <1>2, <1>5, <1>6, <1>7, <1>8, ScoringStepFrame DEF IInv

\* The end of a scoring request: at most a prediction with the row's package.
LEMMA ScoringEnds ==
  ASSUME IInv, NEW s \in Scorers, UNCHANGED <<artifacts, lifecycle, promotions>>,
         looking' = [looking EXCEPT ![s] = None],
         publicKey' \in [Scorers -> Keys], cache' \in [Scorers -> SUBSET Package],
         CachesVerified',
         \/ UNCHANGED scored
         \/ /\ looking[s] # None /\ RowOf(looking[s]).package.model = ServedModel
            /\ scored' = scored \cup {Prediction(looking[s], RowOf(looking[s]).package)}
  PROVE  IInv'
<1>1. TypeOK /\ LookingServing /\ ScoresTraceable  BY DEF IInv
<1>2. \A prediction \in scored' :
        prediction \in [version : Versions, package : Package] /\ Traceable(prediction)
  <2>1. CASE UNCHANGED scored  BY <1>1, <2>1 DEF TypeOK, ScoresTraceable
  <2>2. CASE /\ looking[s] # None /\ RowOf(looking[s]).package.model = ServedModel
             /\ scored' = scored \cup {Prediction(looking[s], RowOf(looking[s]).package)}
    <3>1. looking[s] \in Serving  BY <1>1, <2>2 DEF LookingServing
    <3>2. QED  BY <1>1, <2>2, <3>1, PredictionTraceable DEF TypeOK, ScoresTraceable
  <2>3. QED  BY <2>1, <2>2
<1>3. TypeOK'  BY <1>1, <1>2 DEF TypeOK, artifacts, lifecycle, promotions
<1>4. LookingServing'  BY <1>1, ScoringStepFrame DEF LookingServing, TypeOK
<1>5. ScoresTraceable'  BY <1>2, ScoringStepFrame DEF ScoresTraceable
<1>6. QED  BY <1>3, <1>4, <1>5, ScoringStepFrame DEF IInv

\* Scoring, from the cache or the store, and its failures and restarts.
LEMMA ScoringStepKeeps ==
  ASSUME IInv, NEW s \in Scorers, ScoringStep(s)
  PROVE  IInv'
<1>1. TypeOK  BY DEF IInv
<1>2. CASE FindActive(s)  BY <1>2, FindActiveKeeps
<1>3. CASE ScoreFromCache(s)
  <2>1. UNCHANGED <<publicKey, cache>>  BY <1>3 DEF ScoreFromCache
  <2>2. CachesVerified'  BY <2>1 DEF IInv, CachesVerified
  <2>3. PICK package \in cache[s] :
           /\ package = RowOf(looking[s]).package
           /\ scored' = scored \cup {Prediction(looking[s], package)}
    BY <1>3 DEF ScoreFromCache, CacheHit
  <2>4. RowOf(looking[s]).package.model = ServedModel
    BY <2>3 DEF IInv, CachesVerified
  <2>5. QED  BY <1>1, <1>3, <2>1, <2>2, <2>3, <2>4, ScoringEnds DEF ScoreFromCache, TypeOK
<1>4. CASE LoadAndScore(s)
  <2> DEFINE package == RowOf(looking[s]).package
  <2>1. looking[s] \in Serving  BY <1>4 DEF LoadAndScore, IInv, LookingServing
  <2>2. package.model = ServedModel /\ package.key = publicKey[s]
    BY <1>4, <2>1 DEF LoadAndScore, Loadable, Serving
  <2>3. package \in Package  BY <2>1, <2>2, PredictionTraceable
  <2>4. cache' = [cache EXCEPT ![s] = @ \cup {package}] /\ UNCHANGED publicKey
    BY <1>4 DEF LoadAndScore
  <2>5. cache' \in [Scorers -> SUBSET Package] /\ publicKey' \in [Scorers -> Keys]
    BY <1>1, <2>3, <2>4 DEF TypeOK
  <2>6. ASSUME NEW q \in Scorers, NEW kept \in cache'[q]
        PROVE  kept.key = publicKey[q] /\ kept.model = ServedModel
    <3>1. cache \in [Scorers -> SUBSET Package]  BY <1>1 DEF TypeOK
    <3>2. CASE q = s
      <4>1. cache'[q] = cache[q] \cup {package}  BY <2>4, <3>1, <3>2
      <4>2. QED  BY <2>2, <2>6, <3>2, <4>1 DEF IInv, CachesVerified
    <3>3. CASE q # s
      <4>1. cache'[q] = cache[q]  BY <2>4, <3>1, <3>3
      <4>2. QED  BY <2>6, <4>1 DEF IInv, CachesVerified
    <3>4. QED  BY <3>2, <3>3
  <2>7. CachesVerified'  BY <2>4, <2>6 DEF CachesVerified
  <2>8. QED  BY <1>4, <2>2, <2>5, <2>7, ScoringEnds DEF LoadAndScore
<1>5. CASE FailScoring(s)
  <2>1. CachesVerified'  BY <1>5 DEF FailScoring, IInv, CachesVerified
  <2>2. QED  BY <1>1, <1>5, <2>1, ScoringEnds DEF FailScoring, TypeOK
<1>6. CASE \E key \in Keys : RestartScorer(s, key)
  <2>1. PICK key \in Keys : RestartScorer(s, key)  BY <1>6
  <2>2. cache' \in [Scorers -> SUBSET Package] /\ publicKey' \in [Scorers -> Keys]
    BY <1>1, <2>1 DEF RestartScorer, TypeOK
  <2>3. CachesVerified'  BY <1>1, <2>1 DEF RestartScorer, IInv, CachesVerified, TypeOK
  <2>4. QED  BY <2>1, <2>2, <2>3, ScoringEnds DEF RestartScorer
<1>7. QED  BY <1>2, <1>3, <1>4, <1>5, <1>6 DEF ScoringStep

-----------------------------------------------------------------------------
(***************************************************************************)
(* The invariant is inductive, and what follows from it.                   *)
(***************************************************************************)

\* No step of anybody breaks the invariant.
LEMMA NextKeeps == ASSUME IInv, [Next]_vars PROVE IInv'
<1>1. CASE \E r \in Runs : Train(r)  BY <1>1, TrainKeeps
<1>2. CASE \E e \in Evals, r \in Runs : Evaluate(e, r)  BY <1>2, EvaluateKeeps
<1>3. ASSUME NEW c \in Registrars, RegistrationStep(c) PROVE IInv'
  <2>1. CASE \E req \in Request, env \in Environments : AcceptRegistration(c, req, env)
    BY <2>1, AcceptRegistrationKeeps
  <2>2. CASE WriteCard(c)  BY <2>2, WriteCardKeeps
  <2>3. CASE \E key \in Keys : WritePackage(c, key)  BY <2>3, WritePackageKeeps
  <2>4. CASE InsertRow(c)  BY <2>4, InsertRowKeeps
  <2>5. CASE AbandonRegistration(c)  BY <2>5, AbandonRegistrationKeeps
  <2>6. QED  BY <1>3, <2>1, <2>2, <2>3, <2>4, <2>5 DEF RegistrationStep
<1>4. ASSUME NEW p \in Promoters, PromotionStep(p) PROVE IInv'
  <2>1. CASE \E t \in Tickets, name \in Name, stage \in Stages : BeginPromotion(p, t, name, stage)
    BY <2>1, BeginPromotionKeeps
  <2>2. CASE CommitPromotion(p)  BY <2>2, CommitPromotionKeeps
  <2>3. CASE AbandonPromotion(p)  BY <2>3, AbandonPromotionKeeps
  <2>4. QED  BY <1>4, <2>1, <2>2, <2>3 DEF PromotionStep
<1>5. CASE Tick  BY <1>5, TickKeeps
<1>6. CASE \E s \in Scorers : ScoringStep(s)  BY <1>6, ScoringStepKeeps
<1>7. CASE UNCHANGED vars
  <2>1. UNCHANGED <<artifacts, lifecycle, promotions, scoring>>  BY <1>7 DEF vars
  <2>2. TypeOK /\ LookingServing /\ ScoresTraceable  BY DEF IInv
  <2>3. TypeOK'  BY <2>1, <2>2 DEF TypeOK, artifacts, lifecycle, promotions, scoring
  <2>4. LookingServing'  BY <2>1, <2>2, ScoringStepFrame DEF LookingServing, scoring
  <2>5. ScoresTraceable'  BY <2>1, <2>2, ScoringStepFrame DEF ScoresTraceable, scoring
  <2>6. CachesVerified'  BY <2>1 DEF scoring, IInv, CachesVerified
  <2>7. QED  BY <2>1, <2>3, <2>4, <2>5, <2>6, ScoringStepFrame DEF IInv
<1>8. QED  BY <1>1, <1>2, <1>3, <1>4, <1>5, <1>6, <1>7 DEF Next

\* The inductive invariant holds for all time.
THEOREM Invariance == Spec => []IInv
<1>1. Init => IInv  BY InitIInv
<1>2. IInv /\ [Next]_vars => IInv'  BY NextKeeps
<1>3. QED  BY <1>1, <1>2, PTL DEF Spec

\* Every table, artifact and local keeps its type, for any number of each.
THEOREM TypeCorrect == Spec => []TypeOK
<1>1. IInv => TypeOK  BY DEF IInv
<1>2. QED  BY <1>1, Invariance, PTL

\* Every registry row has its own card and package in the store, whatever
\* replicas register one version together and wherever one of them dies.
THEOREM RegistryBackedHolds == Spec => []RegistryBacked
<1>1. IInv => RegistryBacked
  <2>1. SUFFICES ASSUME IInv, NEW n \in Name, registry[n] # None PROVE RowBacked(n)
    BY DEF RegistryBacked
  <2>2. RowSound(n, registry[n])  BY <2>1 DEF IInv, RowsSound
  <2>3. QED  BY <2>2 DEF RowSound, RowBacked
<1>2. QED  BY <1>1, Invariance, PTL

\* Every prediction leads back to one approved, evaluated and passing version.
THEOREM ScoresTraceableHolds == Spec => []ScoresTraceable
<1>1. IInv => ScoresTraceable  BY DEF IInv
<1>2. QED  BY <1>1, Invariance, PTL

\* What is approved can be loaded but for a foreign model name or another key.
THEOREM PromotedModelLoadsHolds == Spec => []PromotedModelLoads
<1>1. IInv => PromotedModelLoads
  <2>1. SUFFICES ASSUME IInv, NEW t \in Serving, NEW s \in Scorers,
                        RowOf(t).package.model = ServedModel,
                        RowOf(t).package.key = publicKey[s]
                 PROVE  Loadable(t, publicKey[s])
    BY DEF PromotedModelLoads
  <2> DEFINE n == <<assigned[t].model, assigned[t].version>>
  <2>2. t \in Tickets /\ assigned[t] # None /\ assigned[t].model = ServedModel  BY DEF Serving
  <2>3. n \in Name  BY <2>1, <2>2, AssignedName DEF IInv
  <2>4. RowOf(t) = registry[n] /\ registry[n] # None
    BY <2>1, <2>2 DEF IInv, AssignmentsOrdered, RowOf
  <2>5. RowSound(n, registry[n])  BY <2>1, <2>3, <2>4 DEF IInv, RowsSound
  <2>6. /\ <<n, registry[n].package>> \in packages
        /\ registry[n].package.version = assigned[t].version
        /\ registry[n].package.spec = registry[n].spec
    BY <2>5 DEF RowSound
  <2>7. QED  BY <2>1, <2>2, <2>4, <2>6 DEF Loadable
<1>2. QED  BY <1>1, Invariance, PTL

\* No scoring request finds a model active that was replaced by a promotion
\* begun more than the clocks' skew after it.
THEOREM SupersededStaysOutHolds == Spec => SupersededStaysOut
<1> DEFINE Stays == \A s \in Scorers :
                       looking'[s] # looking[s] /\ looking'[s] # None =>
                          \A u \in Serving : looking'[s] \notin assigned[u].known
<1>1. IInv /\ [Next]_vars => [Stays]_vars
  <2>1. SUFFICES ASSUME IInv, Next, NEW s \in Scorers, looking'[s] # looking[s],
                        looking'[s] # None, NEW u \in Serving
                 PROVE  looking'[s] \notin assigned[u].known
    OBVIOUS
  <2>2. PICK q \in Scorers : ScoringStep(q)
    <3>1. looking' # looking  BY <2>1
    <3>2. QED
      BY <2>1, <3>1
      DEF Next, Train, Evaluate, RegistrationStep, AcceptRegistration, WriteCard, WritePackage,
          InsertRow, AbandonRegistration, PromotionStep, BeginPromotion, CommitPromotion,
          AbandonPromotion, Tick, scoring
  <2>3. looking \in [Scorers -> Tickets \cup {None}]  BY <2>1 DEF IInv, TypeOK
  <2>4. PICK t \in Active : looking' = [looking EXCEPT ![q] = t]
    <3>1. CASE FindActive(q)  BY <3>1 DEF FindActive
    <3>2. CASE \/ ScoreFromCache(q) \/ LoadAndScore(q) \/ FailScoring(q)
               \/ \E key \in Keys : RestartScorer(q, key)
      <4>1. looking' = [looking EXCEPT ![q] = None]
        BY <3>2 DEF ScoreFromCache, LoadAndScore, FailScoring, RestartScorer
      <4>2. looking'[s] \in {None, looking[s]}  BY <2>3, <4>1
      <4>3. QED  BY <2>1, <4>2
    <3>3. QED  BY <2>2, <3>1, <3>2 DEF ScoringStep
  <2>5. looking'[s] = t  BY <2>1, <2>3, <2>4
  <2>6. t \in Tickets /\ u \in Tickets /\ assigned[t] # None /\ assigned[u] # None
    BY DEF Active, Serving
  <2>7. assigned[u].at <= assigned[t].at  BY DEF Active
  <2>8. assigned[t].at \in Nat /\ assigned[u].at \in Nat
    BY <2>1, <2>6 DEF IInv, TypeOK, Assignment
  <2>9. KnownEarlier(assigned[u].known, assigned[u].at)
    BY <2>1, <2>6 DEF IInv, AssignmentsOrdered
  <2>10. t \notin assigned[u].known
    <3>1. SUFFICES ASSUME t \in assigned[u].known PROVE FALSE  OBVIOUS
    <3>2. assigned[t].at < assigned[u].at  BY <2>9, <3>1 DEF KnownEarlier
    <3>3. QED  BY <2>7, <2>8, <3>2
  <2>11. QED  BY <2>5, <2>10
<1>2. QED  BY <1>1, Invariance, PTL DEF Spec, SupersededStaysOut

\* What an auditor finds behind a row: the row itself, the card under its name
\* and the verdict it refers to.
Evidence(n) == [row |-> registry[n], card |-> cards[n], verdict |-> evaluated[registry[n].eval]]

\* The evidence behind a row is the same for ever: no other registration of the
\* version, no repeated evaluation and no promotion or prediction alters it.
EvidenceKept == [][\A n \in Name : registry[n] # None => UNCHANGED Evidence(n)]_vars

\* Nothing removes a row or puts another in its place.
LEMMA RowsStay ==
  ASSUME TypeOK, [Next]_vars
  PROVE  RowsPersist
<1>1. ASSUME UNCHANGED registry PROVE RowsPersist  BY <1>1 DEF RowsPersist
<1>2. ASSUME NEW c \in Registrars, InsertRow(c) PROVE RowsPersist
  BY <1>2 DEF InsertRow, RowsPersist, TypeOK
<1>3. ASSUME NEW c \in Registrars, RegistrationStep(c) PROVE RowsPersist
  BY <1>1, <1>2, <1>3
     DEF RegistrationStep, AcceptRegistration, WriteCard, WritePackage, AbandonRegistration
<1>4. CASE \/ \E r \in Runs : Train(r)
           \/ \E e \in Evals, r \in Runs : Evaluate(e, r)
  BY <1>1, <1>4 DEF Train, Evaluate
<1>5. ASSUME NEW p \in Promoters, PromotionStep(p) PROVE RowsPersist
  BY <1>1, <1>5
     DEF PromotionStep, BeginPromotion, CommitPromotion, AbandonPromotion, lifecycle
<1>6. CASE Tick \/ \E s \in Scorers : ScoringStep(s)
  BY <1>1, <1>6
     DEF Tick, ScoringStep, FindActive, ScoreFromCache, LoadAndScore, FailScoring,
         RestartScorer, lifecycle
<1>7. CASE UNCHANGED vars  BY <1>1, <1>7 DEF vars, lifecycle
<1>8. QED  BY <1>3, <1>4, <1>5, <1>6, <1>7 DEF Next

\* A row that is there keeps its card and its verdict: they are what the row
\* says before and after every step.
THEOREM EvidenceKeptHolds == Spec => EvidenceKept
<1> DEFINE Kept == \A n \in Name : registry[n] # None => UNCHANGED Evidence(n)
<1>1. IInv /\ IInv' /\ [Next]_vars => [Kept]_vars
  <2>1. SUFFICES ASSUME IInv, IInv', [Next]_vars, NEW n \in Name, registry[n] # None
                 PROVE  UNCHANGED Evidence(n)
    OBVIOUS
  <2>2. registry'[n] = registry[n]  BY <2>1, RowsStay DEF IInv, RowsPersist
  <2>3. /\ cards[n] = registry[n].card
        /\ evaluated[registry[n].eval] = [run |-> registry[n].run, passed |-> TRUE]
    BY <2>1 DEF IInv, RowsSound, RowSound
  <2>4. /\ cards'[n] = registry'[n].card
        /\ evaluated'[registry'[n].eval] = [run |-> registry'[n].run, passed |-> TRUE]
    BY <2>1, <2>2 DEF IInv, RowsSound, RowSound
  <2>5. QED  BY <2>2, <2>3, <2>4 DEF Evidence
<1>2. QED  BY <1>1, Invariance, PTL DEF Spec, EvidenceKept

\* A version whose card was left behind: there is no row, and no registration
\* under way that wrote the card.
LeftBehind(n) ==
  /\ cards[n] # None
  /\ registry[n] = None
  /\ \A c \in Registrars :
       registering[c] # None /\ NameOf(c) = n => registering[c].pc = "accepted"

\* Such a version is lost: no later request gets past the card, the identical
\* one in the same environment neither.
LeftBehindForGood == [][\A n \in Name : LeftBehind(n) => LeftBehind(n)']_vars

\* A registration that broke off between its card and its row blocks its version
\* for good, whoever tries again and with whatever run and evaluation.
THEOREM LeftBehindForGoodHolds == Spec => LeftBehindForGood
<1> DEFINE Stays == \A n \in Name : LeftBehind(n) => LeftBehind(n)'
<1>1. IInv /\ [Next]_vars => [Stays]_vars
  <2>1. SUFFICES ASSUME IInv, Next, NEW n \in Name, LeftBehind(n) PROVE LeftBehind(n)'
    OBVIOUS
  <2>2. registering \in [Registrars -> Registration \cup {None}]  BY <2>1 DEF IInv, TypeOK
  <2>3. ASSUME UNCHANGED <<cards, registry>>,
               NEW c \in Registrars,
               \A d \in Registrars : d # c => registering'[d] = registering[d],
               registering'[c] # None => registering'[c].pc = "accepted" \/ NameOf(c)' # n
        PROVE  LeftBehind(n)'
    BY <2>1, <2>3 DEF LeftBehind, NameOf
  <2>4. ASSUME UNCHANGED <<cards, registry, registering>> PROVE LeftBehind(n)'
    BY <2>1, <2>4 DEF LeftBehind, NameOf
  <2>5. ASSUME NEW c \in Registrars, registering[c] # None, NameOf(c) = n
        PROVE  registering[c].pc = "accepted"
    BY <2>1, <2>5 DEF LeftBehind
  <2>6. ASSUME NEW c \in Registrars, NEW req \in Request, NEW env \in Environments,
               AcceptRegistration(c, req, env)
        PROVE  LeftBehind(n)'
    <3>1. /\ registering'[c].pc = "accepted"
          /\ \A d \in Registrars : d # c => registering'[d] = registering[d]
          /\ UNCHANGED <<cards, registry>>
      BY <2>2, <2>6 DEF AcceptRegistration, artifacts
    <3>2. QED  BY <2>3, <3>1
  <2>7. ASSUME NEW c \in Registrars, WriteCard(c) PROVE LeftBehind(n)'
    <3>1. /\ registering[c] # None
          /\ cards[NameOf(c)] = None
          /\ cards' = [cards EXCEPT ![NameOf(c)] = registering[c].card]
          /\ registering' = [registering EXCEPT ![c].pc = "carded"]
          /\ UNCHANGED registry
      BY <2>7 DEF WriteCard
    <3>2. NameOf(c) # n  BY <2>1, <3>1 DEF LeftBehind
    <3>3. cards'[n] = cards[n]  BY <2>1, <3>1, <3>2 DEF IInv, TypeOK
    <3>4. registering[c] \in Registration  BY <2>2, <3>1
    <3>5. registering'[c].req = registering[c].req  BY <2>2, <3>1, <3>4 DEF Registration
    <3>6. NameOf(c)' = NameOf(c)  BY <3>5 DEF NameOf
    <3>7. \A d \in Registrars : d # c => registering'[d] = registering[d]  BY <2>2, <3>1
    <3>8. QED  BY <2>1, <3>1, <3>2, <3>3, <3>6, <3>7 DEF LeftBehind, NameOf
  <2>8. ASSUME NEW c \in Registrars, NEW key \in Keys, WritePackage(c, key)
        PROVE  LeftBehind(n)'
    <3> DEFINE signed == SignedPackage(registering[c].req, key)
    <3>1. /\ registering[c] # None /\ registering[c].pc = "carded"
          /\ registering' = [registering EXCEPT ![c].pc = "signed", ![c].package = signed]
          /\ UNCHANGED <<cards, registry>>
      BY <2>8 DEF WritePackage
    <3>2. NameOf(c) # n  BY <2>5, <3>1
    <3>3. registering[c] \in Registration  BY <2>2, <3>1
    <3>4. registering'[c].req = registering[c].req  BY <2>2, <3>1, <3>3 DEF Registration
    <3>5. NameOf(c)' = NameOf(c)  BY <3>4 DEF NameOf
    <3>6. \A d \in Registrars : d # c => registering'[d] = registering[d]  BY <2>2, <3>1
    <3>7. QED  BY <2>3, <3>1, <3>2, <3>5, <3>6
  <2>9. ASSUME NEW c \in Registrars, registering' = [registering EXCEPT ![c] = None],
               UNCHANGED <<cards, registry>>
        PROVE  LeftBehind(n)'
    BY <2>2, <2>3, <2>9
  <2>10. ASSUME NEW c \in Registrars, InsertRow(c) PROVE LeftBehind(n)'
    <3>1. /\ registering[c] # None /\ registering[c].pc = "signed"
          /\ registry' = [registry EXCEPT ![NameOf(c)] =
                             IF @ = None THEN RowFor(registering[c]) ELSE @]
          /\ registering' = [registering EXCEPT ![c] = None]
          /\ UNCHANGED cards
      BY <2>10 DEF InsertRow, artifacts
    <3>2. NameOf(c) # n  BY <2>5, <3>1
    <3>3. registry'[n] = registry[n]  BY <2>1, <3>1, <3>2 DEF IInv, TypeOK
    <3>4. \A d \in Registrars : registering'[d] # None => registering'[d] = registering[d]
      BY <2>2, <3>1
    <3>5. QED  BY <2>1, <3>1, <3>3, <3>4 DEF LeftBehind, NameOf
  <2>11. ASSUME NEW c \in Registrars, RegistrationStep(c) PROVE LeftBehind(n)'
    <3>1. CASE AbandonRegistration(c)  BY <2>9, <3>1 DEF AbandonRegistration, artifacts
    <3>2. QED  BY <2>6, <2>7, <2>8, <2>10, <2>11, <3>1 DEF RegistrationStep
  <2>12. CASE ~ \E c \in Registrars : RegistrationStep(c)
    <3>1. UNCHANGED <<cards, registry, registering>>
      BY <2>1, <2>12
      DEF Next, Train, Evaluate, PromotionStep, BeginPromotion, CommitPromotion,
          AbandonPromotion, Tick, ScoringStep, FindActive, ScoreFromCache, LoadAndScore,
          FailScoring, RestartScorer, artifacts, lifecycle
    <3>2. QED  BY <2>4, <3>1
  <2>13. QED  BY <2>11, <2>12
<1>2. QED  BY <1>1, Invariance, PTL DEF Spec, LeftBehindForGood

-----------------------------------------------------------------------------
(***************************************************************************)
(* The registry on a write-once store.  A row relies on its card as the    *)
(* writer of an artifact does on its URI.                                  *)
(***************************************************************************)
CardsPromised == {<<n, registry[n].card>> : n \in {m \in Name : registry[m] # None}}

CardStore == INSTANCE WriteOnceStore WITH
  Names <- Name, Payloads <- Card, content <- cards, promised <- CardsPromised

\* The registrations ask nothing of the store that a write-once store does not
\* give: cards are put under free names, and a row promises the card that is
\* there.
THEOREM StoreRespected == Spec => CardStore!Spec
<1>1. Init => CardStore!Init  BY DEF Init, CardStore!Init, CardsPromised
<1>2. IInv /\ [Next]_vars => [CardStore!Next]_(CardStore!vars)
  <2> SUFFICES ASSUME IInv, [Next]_vars PROVE CardStore!Next \/ UNCHANGED CardStore!vars
    OBVIOUS
  <2>0. TypeOK /\ RegistrationsBacked  BY DEF IInv
  <2>1. ASSUME UNCHANGED <<cards, registry>> PROVE UNCHANGED CardStore!vars
    BY <2>1 DEF CardStore!vars, CardsPromised
  <2>2. ASSUME NEW c \in Registrars, registering[c] # None
        PROVE  /\ NameOf(c) \in Name /\ registering[c].card \in Card
               /\ registering[c].pc # "accepted" => cards[NameOf(c)] = registering[c].card
    BY <2>0, <2>2
       DEF TypeOK, Registration, Request, NameOf, Name, RegistrationsBacked, RegistrationBacked
  <2>3. ASSUME NEW c \in Registrars, WriteCard(c)
        PROVE  CardStore!Next \/ UNCHANGED CardStore!vars
    <3>1. PICK n \in Name, card \in Card : n = NameOf(c) /\ card = registering[c].card
      BY <2>2, <2>3 DEF WriteCard
    <3>2. /\ cards[n] = None
          /\ cards' = [cards EXCEPT ![n] = card]
          /\ UNCHANGED registry
      BY <2>3, <3>1 DEF WriteCard
    <3>3. QED  BY <3>1, <3>2 DEF CardStore!Next, CardStore!Put, CardsPromised
  <2>4. ASSUME NEW c \in Registrars, InsertRow(c)
        PROVE  CardStore!Next \/ UNCHANGED CardStore!vars
    <3>1. PICK n \in Name, card \in Card : n = NameOf(c) /\ card = registering[c].card
      BY <2>2, <2>4 DEF InsertRow
    <3>2. cards[n] = card /\ UNCHANGED cards
      BY <2>2, <2>4, <3>1 DEF InsertRow, artifacts
    <3>3. registry' = [registry EXCEPT ![n] = IF @ = None THEN RowFor(registering[c]) ELSE @]
      BY <2>4, <3>1 DEF InsertRow
    <3>4. CASE registry[n] = None
      <4>1. registry'[n] = RowFor(registering[c]) /\ registry'[n].card = card
        BY <2>0, <3>1, <3>3, <3>4 DEF TypeOK, RowFor
      <4>2. RowFor(registering[c]) \in Row
        BY <2>0, <2>4 DEF InsertRow, TypeOK, Registration, Request, Row, RowFor
      <4>3. CardsPromised' = CardsPromised \union {<<n, card>>}
        BY <2>0, <3>3, <3>4, <4>1, <4>2, NoneAssumption DEF CardsPromised, TypeOK
      <4>4. QED  BY <3>1, <3>2, <4>3 DEF CardStore!Next, CardStore!Promise
    <3>5. CASE registry[n] # None
      BY <2>0, <2>1, <3>2, <3>3, <3>5 DEF TypeOK
    <3>6. QED  BY <3>4, <3>5
  <2>5. ASSUME NEW c \in Registrars, RegistrationStep(c)
        PROVE  CardStore!Next \/ UNCHANGED CardStore!vars
    BY <2>1, <2>3, <2>4, <2>5
       DEF RegistrationStep, AcceptRegistration, WritePackage, AbandonRegistration, artifacts
  <2>6. ASSUME \/ \E r \in Runs : Train(r)
               \/ \E e \in Evals, r \in Runs : Evaluate(e, r)
        PROVE  UNCHANGED CardStore!vars
    BY <2>1, <2>6 DEF Train, Evaluate, artifacts
  <2>7. ASSUME NEW p \in Promoters, PromotionStep(p) PROVE UNCHANGED CardStore!vars
    BY <2>1, <2>7
       DEF PromotionStep, BeginPromotion, CommitPromotion, AbandonPromotion, artifacts, lifecycle
  <2>8. ASSUME Tick \/ \E s \in Scorers : ScoringStep(s) PROVE UNCHANGED CardStore!vars
    BY <2>1, <2>8
       DEF Tick, ScoringStep, FindActive, ScoreFromCache, LoadAndScore, FailScoring,
           RestartScorer, artifacts, lifecycle
  <2>9. ASSUME UNCHANGED vars PROVE UNCHANGED CardStore!vars
    BY <2>1, <2>9 DEF vars, artifacts, lifecycle
  <2>10. QED  BY <2>5, <2>6, <2>7, <2>8, <2>9 DEF Next
<1>3. QED  BY <1>1, <1>2, Invariance, PTL DEF Spec, CardStore!Spec

-----------------------------------------------------------------------------
(***************************************************************************)
(* The store itself, for any names, payloads and writers: ArtifactStore    *)
(* under the assumptions it states.  The argument: only a call that found  *)
(* no bytes gives a name some, no second call can have found the same on a *)
(* file system with one writer or in a container that creates blobs        *)
(* atomically, and a URI is returned for whole bytes only.                 *)
(***************************************************************************)
\* The invariant holds of an empty store, whatever its backend.
LEMMA StoreInitIInv == StoreInit => StoreIInv
BY StoreAssumption DEF StoreInit, StoreIInv, StoreTypeOK,
       CallsBacked, ReturnedStored

\* A call under way has a name, a payload and a place in the code.
LEMMA StoreCall ==
  ASSUME StoreTypeOK, NEW w \in Writers, writing[w] # Nothing
  PROVE  /\ writing[w] \in Call
         /\ writing[w].name \in Names /\ writing[w].payload \in Payloads
         /\ writing[w].pc \in {"called", "absent", "open", "stored", "exists"}
         /\ writing[w].payload \notin {Nothing, Torn, "not_found", "invalid_uri"}
<1>1. writing[w] \in Call  BY DEF StoreTypeOK
<1>2. QED  BY <1>1, StoreAssumption DEF Call, ReadErrors

\* Bytes that read_bytes finds under a good name are those that are stored.
LEMMA StoreReads ==
  ASSUME StoreTypeOK, NEW n \in Names, n \notin BadNames
  PROVE  /\ ReadBytes([backend |-> backend, name |-> n]) = "not_found" <=> stored[n] = Nothing
         /\ \A p \in Payloads :
              ReadBytes([backend |-> backend, name |-> n]) = p <=> stored[n] = p
BY StoreAssumption DEF ReadErrors, StoreTypeOK, ReadBytes

\* Bytes come to the name of w's call that had none: a file that is absent or
\* torn, or a blob that does not exist and is created whole.
StoreFills(w) ==
  LET n == writing[w].name
  IN /\ writing[w] # Nothing
     /\ stored' = [stored EXCEPT ![n] = stored'[n]]
     /\ \/ backend = "filesystem" /\ stored[n] \in {Nothing, Torn} /\ stored'[n] \in Payloads \union {Torn}
        \/ stored[n] = Nothing /\ stored'[n] \in Payloads

\* What is returned and what other writers' calls rely on outlasts that.
LEMMA StoreFrame ==
  ASSUME StoreIInv, NEW w \in Writers, UNCHANGED backend,
         UNCHANGED stored \/ StoreFills(w)
  PROVE  /\ stored' \in [Names -> Payloads \union {Torn, Nothing}]
         /\ \A r \in returned : stored'[r.uri.name] = r.payload
         /\ \A v \in Writers : v # w /\ writing[v] # Nothing /\ writing'[v] = writing[v]
                                 => CallBacked(v)'
<1> DEFINE n == writing[w].name
<1>0. StoreTypeOK /\ CallsBacked /\ ReturnedStored  BY DEF StoreIInv
<1>1. CASE UNCHANGED stored
  BY <1>0, <1>1 DEF StoreTypeOK, ReturnedStored, CallsBacked, CallBacked
<1>2. CASE StoreFills(w)
  <2>1. /\ writing[w] # Nothing
        /\ stored' = [stored EXCEPT ![n] = stored'[n]]
        /\ stored[n] \in {Nothing, Torn}
        /\ stored'[n] \in Payloads \union {Torn}
        /\ backend # "filesystem" => stored[n] = Nothing /\ stored'[n] \in Payloads
    BY <1>2 DEF StoreFills
  <2>2. n \in Names  BY <1>0, <2>1, StoreCall
  <2>3. stored' \in [Names -> Payloads \union {Torn, Nothing}]
    BY <1>0, <2>1, <2>2 DEF StoreTypeOK
  <2>4. ASSUME NEW r \in returned PROVE stored'[r.uri.name] = r.payload
    <3>1. r.payload \in Payloads /\ r.uri.name \in Names  BY <1>0 DEF StoreTypeOK, URI
    <3>2. stored[r.uri.name] = r.payload  BY <1>0 DEF ReturnedStored
    <3>3. r.uri.name # n  BY <2>1, <3>1, <3>2, StoreAssumption
    <3>4. QED  BY <1>0, <2>1, <3>1, <3>2, <3>3 DEF StoreTypeOK
  <2>5. ASSUME NEW v \in Writers, v # w, writing[v] # Nothing, writing'[v] = writing[v]
        PROVE  CallBacked(v)'
    <3>1. CallBacked(v) /\ CallBacked(w)  BY <1>0, <2>1, <2>5 DEF CallsBacked
    <3>2. backend # "filesystem"
      BY <2>5, <3>1, OneFileWriter DEF CallBacked
    <3>3. writing[v].name \in Names /\ writing[v].payload # Nothing  BY <1>0, <2>5, StoreCall
    <3>4. writing[v].pc = "stored" => stored'[writing[v].name] = writing[v].payload
      BY <1>0, <2>1, <3>1, <3>2, <3>3 DEF CallBacked, StoreTypeOK
    <3>5. writing[v].pc \notin {"absent", "open"}  BY <3>1, <3>2 DEF CallBacked
    <3>6. QED  BY <2>5, <3>1, <3>2, <3>4, <3>5 DEF CallBacked
  <2>6. QED  BY <2>3, <2>4, <2>5
<1>3. QED  BY <1>1, <1>2

\* A step that moves w's call alone keeps the invariant when the call stays
\* backed and what it returns is stored.
LEMMA StoreMove ==
  ASSUME StoreIInv, NEW w \in Writers, UNCHANGED backend,
         UNCHANGED stored \/ StoreFills(w),
         writing' = [writing EXCEPT ![w] = writing'[w]],
         writing'[w] # Nothing => writing'[w] \in Call /\ CallBacked(w)',
         \/ UNCHANGED returned
         \/ /\ writing[w] # Nothing
            /\ Return(w)
            /\ stored'[writing[w].name] = writing[w].payload
  PROVE  StoreIInv'
<1>0. StoreTypeOK /\ CallsBacked /\ ReturnedStored  BY DEF StoreIInv
<1>1. /\ stored' \in [Names -> Payloads \union {Torn, Nothing}]
      /\ \A r \in returned : stored'[r.uri.name] = r.payload
      /\ \A v \in Writers : v # w /\ writing[v] # Nothing /\ writing'[v] = writing[v]
                              => CallBacked(v)'
  BY StoreFrame
<1>2. returned' \subseteq [uri : URI, payload : Payloads] /\ ReturnedStored'
  <2>1. CASE UNCHANGED returned
    BY <1>0, <1>1, <2>1 DEF ReturnedStored, StoreTypeOK
  <2>2. CASE /\ writing[w] # Nothing
             /\ Return(w)
             /\ stored'[writing[w].name] = writing[w].payload
    <3> DEFINE r == [uri |-> Target(w), payload |-> writing[w].payload]
    <3>1. /\ writing[w].name \in Names /\ writing[w].payload \in Payloads
          /\ writing[w].name \notin BadNames
      BY <1>0, <2>2, StoreCall DEF CallsBacked, CallBacked
    <3>2. r \in [uri : URI, payload : Payloads]
      BY <1>0, <3>1 DEF Target, URI, StoreTypeOK
    <3>3. returned' = returned \union {r}  BY <2>2 DEF Return
    <3>4. /\ r.uri.backend = backend
          /\ r.uri.name = writing[w].name
          /\ r.payload = writing[w].payload  BY DEF Target
    <3>5. ReturnedStored'
      BY <1>0, <1>1, <2>2, <3>1, <3>3, <3>4 DEF ReturnedStored
    <3>6. QED  BY <1>0, <3>2, <3>3, <3>5 DEF StoreTypeOK
  <2>3. QED  BY <2>1, <2>2
<1>3. StoreTypeOK'  BY <1>0, <1>1, <1>2 DEF StoreTypeOK
<1>4. ASSUME NEW v \in Writers, writing'[v] # Nothing PROVE CallBacked(v)'
  <2>1. CASE v = w  BY <1>4, <2>1
  <2>2. CASE v # w  BY <1>0, <1>1, <1>4, <2>2 DEF StoreTypeOK
  <2>3. QED  BY <2>1, <2>2
<1>5. CallsBacked'  BY <1>4 DEF CallsBacked
<1>6. QED  BY <1>2, <1>3, <1>5 DEF StoreIInv

\* Every step of a writer keeps the invariant.
LEMMA StoreStepIInv ==
  ASSUME StoreIInv, NEW w \in Writers, Step(w)
  PROVE  StoreIInv'
<1> DEFINE call == writing[w]
<1>0. StoreTypeOK /\ CallsBacked /\ ReturnedStored  BY DEF StoreIInv
<1>1. ASSUME call # Nothing
      PROVE  /\ call \in Call /\ call.name \in Names /\ call.payload \in Payloads
             /\ CallBacked(w)
             /\ Target(w) = [backend |-> backend, name |-> call.name]
  BY <1>0, <1>1, StoreCall DEF CallsBacked, Target
<1>2. ASSUME call # Nothing, NEW pc \in {"absent", "open", "stored", "exists"}, Goto(w, pc)
      PROVE  /\ writing' = [writing EXCEPT ![w] = writing'[w]]
             /\ writing'[w] \in Call
             /\ writing'[w].name = call.name
             /\ writing'[w].payload = call.payload
             /\ writing'[w].pc = pc
  <2>1. writing' = [writing EXCEPT ![w] = [call EXCEPT !.pc = pc]]  BY <1>2 DEF Goto
  <2>2. writing'[w] = [call EXCEPT !.pc = pc]  BY <1>0, <2>1 DEF StoreTypeOK
  <2>3. QED  BY <1>1, <1>2, <2>1, <2>2 DEF Call
<1>3. ASSUME Return(w) \/ Error(w)
      PROVE  writing' = [writing EXCEPT ![w] = writing'[w]] /\ writing'[w] = Nothing
  <2>1. writing' = [writing EXCEPT ![w] = Nothing]  BY <1>3 DEF Return, Error
  <2>2. QED  BY <1>0, <2>1 DEF StoreTypeOK
<1>4. ASSUME NEW n \in Names, NEW p \in Payloads, WriteBytes(w, n, p) PROVE StoreIInv'
  <2> DEFINE new == [pc |-> "called", name |-> n, payload |-> p]
  <2>1. writing' = [writing EXCEPT ![w] = new] /\ UNCHANGED <<backend, stored, returned>>
    BY <1>4 DEF WriteBytes
  <2>2. writing'[w] = new /\ new \in Call  BY <1>0, <2>1 DEF StoreTypeOK, Call
  <2>3. CallBacked(w)'  BY <1>4, <2>1, <2>2 DEF WriteBytes, CallBacked
  <2>4. QED  BY <2>1, <2>2, <2>3, StoreMove
<1>5. CASE FileLooks(w)
  <2>1. /\ call # Nothing /\ backend = "filesystem" /\ UNCHANGED <<backend, stored>>
        /\ call.name \notin BadNames
    BY <1>1, <1>5 DEF FileLooks, At, CallBacked
  <2>2. CASE /\ ReadBytes(Target(w)) = "not_found"
             /\ Goto(w, "absent")
             /\ UNCHANGED returned
    <3>1. stored[call.name] = Nothing  BY <1>0, <1>1, <2>1, <2>2, StoreReads
    <3>2. CallBacked(w)'  BY <1>1, <1>2, <2>1, <2>2, <3>1 DEF CallBacked
    <3>3. QED  BY <1>2, <2>1, <2>2, <3>2, StoreMove
  <2>3. CASE ReadBytes(Target(w)) = writing[w].payload /\ Return(w)
    <3>1. stored[call.name] = call.payload  BY <1>0, <1>1, <2>1, <2>3, StoreReads
    <3>2. QED  BY <1>3, <2>1, <2>3, <3>1, StoreMove
  <2>4. CASE Error(w)
    <3>1. UNCHANGED returned  BY <2>4 DEF Error
    <3>2. QED  BY <1>3, <2>1, <2>4, <3>1, StoreMove
  <2>5. QED  BY <1>5, <2>2, <2>3, <2>4 DEF FileLooks
<1>6. CASE FileOpens(w)
  <2>1. /\ call # Nothing /\ call.pc = "absent" /\ Goto(w, "open")
        /\ stored' = [stored EXCEPT ![call.name] = Torn]
        /\ UNCHANGED <<backend, returned>>
    BY <1>6 DEF FileOpens, At, PutBytes
  <2>2. backend = "filesystem" /\ stored[call.name] = Nothing  BY <1>1, <2>1 DEF CallBacked
  <2>3. stored'[call.name] = Torn  BY <1>0, <1>1, <2>1 DEF StoreTypeOK
  <2>4. StoreFills(w)  BY <2>1, <2>2, <2>3 DEF StoreFills
  <2>5. CallBacked(w)'  BY <1>1, <1>2, <2>1, <2>2, <2>3 DEF CallBacked
  <2>6. QED  BY <1>2, <2>1, <2>4, <2>5, StoreMove
<1>7. CASE FileWritten(w)
  <2>1. /\ call # Nothing /\ call.pc = "open" /\ Return(w)
        /\ stored' = [stored EXCEPT ![call.name] = call.payload]
        /\ UNCHANGED backend
    BY <1>7 DEF FileWritten, At, PutBytes
  <2>2. backend = "filesystem" /\ stored[call.name] = Torn  BY <1>1, <2>1 DEF CallBacked
  <2>3. stored'[call.name] = call.payload  BY <1>0, <1>1, <2>1 DEF StoreTypeOK
  <2>4. StoreFills(w)  BY <1>1, <2>1, <2>2, <2>3 DEF StoreFills
  <2>5. QED  BY <1>3, <2>1, <2>3, <2>4, StoreMove
<1>8. CASE Upload(w)
  <2>1. call # Nothing /\ backend = "azure_blob" /\ UNCHANGED <<backend, returned>>
    BY <1>8 DEF Upload, At
  <2>2. CASE /\ stored[call.name] = Nothing
             /\ Goto(w, "stored")
             /\ PutBytes(w, call.payload)
    <3>1. stored' = [stored EXCEPT ![call.name] = call.payload]  BY <2>2 DEF PutBytes
    <3>2. stored'[call.name] = call.payload  BY <1>0, <1>1, <2>1, <3>1 DEF StoreTypeOK
    <3>3. StoreFills(w)  BY <1>1, <2>1, <2>2, <3>1, <3>2 DEF StoreFills
    <3>4. CallBacked(w)'  BY <1>1, <1>2, <2>1, <2>2, <3>2 DEF CallBacked
    <3>5. QED  BY <1>2, <2>1, <2>2, <3>3, <3>4, StoreMove
  <2>3. CASE Goto(w, "exists") /\ UNCHANGED stored
    <3>1. CallBacked(w)'  BY <1>1, <1>2, <2>1, <2>3 DEF CallBacked
    <3>2. QED  BY <1>2, <2>1, <2>3, <3>1, StoreMove
  <2>4. QED  BY <1>8, <2>2, <2>3 DEF Upload
<1>9. CASE UploadAnswered(w)
  <2>1. /\ call # Nothing /\ Return(w) /\ UNCHANGED <<backend, stored>>
        /\ stored[call.name] = call.payload
    BY <1>1, <1>9 DEF UploadAnswered, At, CallBacked
  <2>2. QED  BY <1>3, <2>1, StoreMove
<1>10. CASE CompareExisting(w)
  <2>1. call # Nothing /\ UNCHANGED <<backend, stored>> /\ call.name \notin BadNames
    BY <1>1, <1>10 DEF CompareExisting, At, CallBacked
  <2>2. CASE ReadBytes(Target(w)) = writing[w].payload /\ Return(w)
    <3>1. stored[call.name] = call.payload  BY <1>0, <1>1, <2>1, <2>2, StoreReads
    <3>2. QED  BY <1>3, <2>1, <2>2, <3>1, StoreMove
  <2>3. CASE Error(w)
    <3>1. UNCHANGED returned  BY <2>3 DEF Error
    <3>2. QED  BY <1>3, <2>1, <2>3, <3>1, StoreMove
  <2>4. QED  BY <1>10, <2>2, <2>3 DEF CompareExisting
<1>11. CASE Fail(w)
  <2>1. Error(w) /\ UNCHANGED <<backend, stored, returned>>
    BY <1>11 DEF Fail, Error
  <2>2. QED  BY <1>3, <2>1, StoreMove
<1>12. QED  BY <1>4, <1>5, <1>6, <1>7, <1>8, <1>9, <1>10, <1>11 DEF Step

\* Over any number of writers and names.
LEMMA StoreNextIInv ==
  ASSUME StoreIInv, [StoreNext]_storeVars PROVE StoreIInv'
<1>1. CASE StoreNext  BY <1>1, StoreStepIInv DEF StoreNext
<1>2. CASE UNCHANGED storeVars
  BY <1>2 DEF storeVars, StoreIInv, StoreTypeOK, CallsBacked, CallBacked, ReturnedStored
<1>3. QED  BY <1>1, <1>2

\* What a call under way and a returned URI rely on stays true whatever other
\* writers do and wherever one breaks off.
THEOREM StoreInvariance == StoreSpec => []StoreIInv
<1>1. StoreInit => StoreIInv  BY StoreInitIInv
<1>2. StoreIInv /\ [StoreNext]_storeVars => StoreIInv'  BY StoreNextIInv
<1>3. QED  BY <1>1, <1>2, PTL DEF StoreSpec

\* Every variable of the store keeps its type (StoreTypeOK).
THEOREM StoreTypeCorrect == StoreSpec => []StoreTypeOK
<1>1. StoreIInv => StoreTypeOK  BY DEF StoreIInv
<1>2. QED  BY <1>1, StoreInvariance, PTL

\* Whatever URI write_bytes has returned, read_bytes gives the bytes its writer
\* meant, from then on and at any moment.
THEOREM ReturnedReadsBackHolds == StoreSpec => []ReturnedReadsBack
<1>1. StoreIInv => ReturnedReadsBack
  BY StoreAssumption
     DEF StoreIInv, StoreTypeOK, ReturnedStored, ReturnedReadsBack, ReadBytes
<1>2. QED  BY <1>1, StoreInvariance, PTL

-----------------------------------------------------------------------------
(***************************************************************************)
(* The store is write-once.                                                *)
(***************************************************************************)

Whole(n) == IF stored[n] = Torn THEN Nothing ELSE stored[n]
Content == [n \in Names |-> Whole(n)]
Promised == {<<r.uri.name, r.payload>> : r \in returned}

\* A call that gives its name the first whole bytes, or promises what it has,
\* or both, takes a step of the write-once store.
LEMMA WriterSteps ==
  ASSUME StoreTypeOK, NEW w \in Writers, writing[w] # Nothing,
         LET n == writing[w].name
             p == writing[w].payload
             put == Content[n] = Nothing /\ Content' = [Content EXCEPT ![n] = p]
             promise == Promised' = Promised \union {<<n, p>>}
         IN \/ put /\ UNCHANGED Promised
            \/ Content[n] = p /\ promise /\ UNCHANGED Content
            \/ put /\ promise
  PROVE  Abstract!Next
<1>1. PICK n \in Names, p \in Payloads : n = writing[w].name /\ p = writing[w].payload
  BY StoreCall
<1>2. \/ Content[n] = Nothing /\ Content' = [Content EXCEPT ![n] = p] /\ UNCHANGED Promised
      \/ Content[n] = p /\ Promised' = Promised \union {<<n, p>>} /\ UNCHANGED Content
      \/ /\ Content[n] = Nothing /\ Content' = [Content EXCEPT ![n] = p]
         /\ Promised' = Promised \union {<<n, p>>}
  BY <1>1
<1>3. \/ Abstract!Put(n, p)
      \/ Abstract!Promise(n, p)
      \/ Abstract!PutAndPromise(n, p)
  BY <1>2
     DEF Abstract!Put, Abstract!Promise, Abstract!PutAndPromise, Content, Promised, Whole
<1>4. QED  BY <1>3 DEF Abstract!Next

\* A step that keeps the names' whole bytes and the URIs is none of the
\* write-once store.
LEMMA StoreStutters ==
  ASSUME UNCHANGED <<Content, Promised>>
  PROVE  UNCHANGED Abstract!vars
BY DEF Abstract!vars, Content, Promised, Whole

\* What a return adds to the promises.
LEMMA ReturnPromises ==
  ASSUME NEW w \in Writers, Return(w)
  PROVE  Promised' = Promised \union {<<writing[w].name, writing[w].payload>>}
<1> DEFINE r == [uri |-> Target(w), payload |-> writing[w].payload]
<1>1. returned' = returned \union {r}  BY DEF Return
<1>2. r.uri.name = writing[w].name /\ r.payload = writing[w].payload  BY DEF Target
<1>3. QED  BY <1>1, <1>2 DEF Promised

\* A name that gets whole bytes had none.
LEMMA FillsPut ==
  ASSUME StoreIInv, NEW w \in Writers, writing[w] # Nothing,
         stored' = [stored EXCEPT ![writing[w].name] = writing[w].payload],
         stored[writing[w].name] \in {Nothing, Torn}
  PROVE  /\ Content[writing[w].name] = Nothing
         /\ Content' = [Content EXCEPT ![writing[w].name] = writing[w].payload]
<1>1. /\ writing[w].name \in Names /\ writing[w].payload \in Payloads \ {Torn}
      /\ stored \in [Names -> Payloads \union {Torn, Nothing}]
  BY StoreCall DEF StoreIInv, StoreTypeOK
<1>2. QED  BY <1>1 DEF Content, Whole

\* Every step of a writer is a step of the write-once store or none.
LEMMA StoreMaps ==
  ASSUME StoreIInv, NEW w \in Writers, Step(w)
  PROVE  Abstract!Next \/ UNCHANGED Abstract!vars
<1> DEFINE call == writing[w]
<1>0. StoreTypeOK /\ CallsBacked  BY DEF StoreIInv
<1>1. ASSUME call # Nothing
      PROVE  /\ call.name \in Names /\ call.payload \in Payloads
             /\ CallBacked(w)
             /\ Target(w) = [backend |-> backend, name |-> call.name]
  BY <1>0, <1>1, StoreCall DEF CallsBacked, Target
<1>2. ASSUME UNCHANGED <<stored, returned>>
      PROVE  UNCHANGED Abstract!vars
  BY <1>2, StoreStutters DEF Content, Promised, Whole
<1>3. ASSUME call # Nothing, Return(w), UNCHANGED stored, stored[call.name] = call.payload
      PROVE  Abstract!Next
  <2>1. Content[call.name] = call.payload /\ UNCHANGED Content
    BY <1>1, <1>3, StoreAssumption DEF Content, Whole
  <2>2. QED  BY <1>0, <1>3, <2>1, ReturnPromises, WriterSteps
<1>4. CASE \E n \in Names, p \in Payloads : WriteBytes(w, n, p)
  BY <1>2, <1>4 DEF WriteBytes
<1>5. CASE FileLooks(w)
  <2>1. /\ call # Nothing /\ UNCHANGED stored
        /\ call.name \notin BadNames
    BY <1>1, <1>5 DEF FileLooks, At, CallBacked
  <2>2. CASE UNCHANGED returned  BY <1>2, <2>1, <2>2
  <2>3. CASE ReadBytes(Target(w)) = writing[w].payload /\ Return(w)
    BY <1>0, <1>1, <1>3, <2>1, <2>3, StoreReads
  <2>4. QED  BY <1>5, <2>2, <2>3 DEF FileLooks, Error
<1>6. CASE FileOpens(w)
  <2>1. /\ call # Nothing /\ call.pc = "absent"
        /\ stored' = [stored EXCEPT ![call.name] = Torn] /\ UNCHANGED returned
    BY <1>6 DEF FileOpens, At, PutBytes
  <2>2. stored[call.name] = Nothing  BY <1>1, <2>1 DEF CallBacked
  <2>3. UNCHANGED Content
    BY <1>0, <1>1, <2>1, <2>2 DEF Content, Whole, StoreTypeOK
  <2>4. QED  BY <2>1, <2>3, StoreStutters DEF Promised
<1>7. CASE FileWritten(w)
  <2>1. /\ call # Nothing /\ call.pc = "open" /\ Return(w)
        /\ stored' = [stored EXCEPT ![call.name] = call.payload]
    BY <1>7 DEF FileWritten, At, PutBytes
  <2>2. stored[call.name] \in {Nothing, Torn}  BY <1>1, <2>1 DEF CallBacked
  <2>3. /\ Content[call.name] = Nothing
        /\ Content' = [Content EXCEPT ![call.name] = call.payload]
    BY <2>1, <2>2, FillsPut
  <2>4. QED  BY <1>0, <2>1, <2>3, ReturnPromises, WriterSteps
<1>8. CASE Upload(w)
  <2>1. call # Nothing /\ UNCHANGED returned  BY <1>8 DEF Upload, At
  <2>2. CASE stored[call.name] = Nothing /\ PutBytes(w, call.payload)
    <3>1. stored' = [stored EXCEPT ![call.name] = call.payload]  BY <2>2 DEF PutBytes
    <3>2. /\ Content[call.name] = Nothing
          /\ Content' = [Content EXCEPT ![call.name] = call.payload]
      BY <2>1, <2>2, <3>1, FillsPut
    <3>3. UNCHANGED Promised  BY <2>1 DEF Promised
    <3>4. QED  BY <1>0, <2>1, <3>2, <3>3, WriterSteps
  <2>3. CASE UNCHANGED stored  BY <1>2, <2>1, <2>3
  <2>4. QED  BY <1>8, <2>2, <2>3 DEF Upload
<1>9. CASE UploadAnswered(w)
  <2>1. /\ call # Nothing /\ Return(w) /\ UNCHANGED stored
        /\ stored[call.name] = call.payload
    BY <1>1, <1>9 DEF UploadAnswered, At, CallBacked
  <2>2. QED  BY <1>3, <2>1
<1>10. CASE CompareExisting(w)
  <2>1. call # Nothing /\ UNCHANGED stored /\ call.name \notin BadNames
    BY <1>1, <1>10 DEF CompareExisting, At, CallBacked
  <2>2. CASE ReadBytes(Target(w)) = writing[w].payload /\ Return(w)
    BY <1>0, <1>1, <1>3, <2>1, <2>2, StoreReads
  <2>3. CASE UNCHANGED returned  BY <1>2, <2>1, <2>3
  <2>4. QED  BY <1>10, <2>2, <2>3 DEF CompareExisting, Error
<1>11. CASE Fail(w)  BY <1>2, <1>11 DEF Fail, Error
<1>12. QED  BY <1>4, <1>5, <1>6, <1>7, <1>8, <1>9, <1>10, <1>11 DEF Step

\* Files and blobs, with writers that race and break off, are a store that
\* gives a name bytes once and keeps what it promised.
THEOREM StoreIsWriteOnce == StoreSpec => ImplementsWriteOnce
<1>1. StoreInit => Abstract!Init
  BY StoreAssumption DEF StoreInit, Abstract!Init
<1>2. StoreIInv /\ [StoreNext]_storeVars => [Abstract!Next]_(Abstract!vars)
  <2>1. ASSUME StoreIInv, StoreNext PROVE Abstract!Next \/ UNCHANGED Abstract!vars
    BY <2>1, StoreMaps DEF StoreNext
  <2>2. ASSUME UNCHANGED storeVars PROVE UNCHANGED Abstract!vars
    BY <2>2, StoreStutters DEF storeVars, Content, Promised, Whole
  <2>3. QED  BY <2>1, <2>2
<1>3. QED
  BY <1>1, <1>2, StoreInvariance, PTL DEF StoreSpec, ImplementsWriteOnce, Abstract!Spec

=============================================================================
