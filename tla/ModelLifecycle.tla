--------------------------- MODULE ModelLifecycle ---------------------------
(***************************************************************************)
(* The life of a credit model: training, evaluation, registration and     *)
(* promotion in the mlops service (routes.py, lifecycle.py and             *)
(* repositories.py of mlops_service) and its use by the scoring service    *)
(* (resolve_active_scoring_model in scoring_service/runtime.py).           *)
(*                                                                         *)
(* A registration writes two artifacts and then one row, in three places   *)
(* where a replica can die or another replica can come between; a          *)
(* promotion reads the clock in a transaction that commits later; scoring  *)
(* reads the row in one await and the artifact in another.                 *)
(*                                                                         *)
(* The store creates a blob atomically or reports what is there, as Azure  *)
(* does (upload_blob without overwrite); on the filesystem store this      *)
(* holds for one mlops process, whose writes are synchronous.  Digests,    *)
(* checksums and signatures are what they name: contents and a key.        *)
(***************************************************************************)
EXTENDS Naturals

CONSTANTS
    Models, Versions,     \* model_name and model_version values
    Runs, Evals,          \* run_id and evaluation_id values
    Data, Specs,          \* dataset and seed; feature and training spec refs
    TrainRequest,         \* what each training run was asked to train
    PassingData,          \* data whose metrics pass evaluate_policy
    Environments,         \* environment snapshots of mlops replicas
    Times,                \* values of generated_at in the metadata of a card
    Keys,                 \* model signing key pairs
    Tickets, Stages,      \* approval_ticket values, promotion stages
    Registrars,           \* register requests in flight
    Promoters,            \* promote requests in flight
    Scorers,              \* scoring processes
    ServedModel, ServedStage,   \* scoring_model_name, scoring_model_stage
    Skew, MaxSkew,        \* how far each request's replica has its clock ahead
    MaxTime,              \* bound of the clock
    None

ASSUME ConstantsAssumption ==
    /\ TrainRequest \in [Runs -> [model : Models, data : Data, spec : Specs]]
    /\ PassingData \subseteq Data
    /\ ServedModel \in Models /\ ServedStage \in Stages
    /\ MaxSkew \in Nat /\ MaxTime \in Nat
    /\ Skew \in [Promoters -> 0..MaxSkew]

(***************************************************************************)
(* Contents.  Name is the primary key of model_registry, Request the body  *)
(* of POST /mlops/register, Package a signed registered artifact, Card a   *)
(* model card, Row a row of model_registry: its package stands for         *)
(* artifact_uri, artifact_digest and the signature columns, its card for   *)
(* model_card_checksum.                                                    *)
(***************************************************************************)
Name == Models \X Versions

Request == [model : Models, version : Versions, run : Runs, eval : Evals, spec : Specs]

Package == [model : Models, data : Data, spec : Specs, version : Versions, key : Keys]

Card == [run : Runs, eval : Evals, env : Environments, generated : Times]

Row == [run : Runs, eval : Evals, spec : Specs, package : Package, card : Card]

Evaluation == [run : Runs, passed : BOOLEAN]

Registration == [pc : {"accepted", "carded"}, req : Request, card : Card, package : {None}]
    \cup [pc : {"signed"}, req : Request, card : Card, package : Package]

(* An INSERT into model_stage_assignments.  known and committed are        *)
(* history: the promotions a human could see everywhere when this one      *)
(* began, and the time at which it committed.                              *)
Promotion == [model : Models, version : Versions, stage : Stages, at : Nat,
              known : SUBSET Tickets]

Assignment == [model : Models, version : Versions, stage : Stages, at : Nat,
               known : SUBSET Tickets, committed : Nat]

Promoting == [ticket : Tickets, promotion : Promotion]

ASSUME NoneAssumption ==
    /\ None \notin Tickets
    /\ None \notin Card
    /\ None \notin Package
    /\ None \notin Row
    /\ None \notin Evaluation
    /\ None \notin Registration
    /\ None \notin Promoting
    /\ None \notin Assignment

VARIABLES
    trained,      \* ml_training_runs: the runs with a row and an artifact
    evaluated,    \* ml_evaluation_runs
    cards,        \* model-cards/<name>--<version>.json in the store
    packages,     \* registered-artifacts in the store, under name and digest
    registry,     \* model_registry
    registering,  \* the local state of each register request
    clock,        \* true time
    promoting,    \* the local state of each promote request
    assigned,     \* model_stage_assignments by approval_ticket
    outbox,       \* credit.model.promoted events in mlops_outbox, by ticket
    publicKey,    \* MODEL_SIGNING_PUBLIC_KEY_PEM of each scoring process
    cache,        \* _MODEL_CACHE of each scoring process
    looking,      \* the assignment a scoring request found active
    scored        \* score_prediction_history: version and package used

artifacts == <<cards, packages>>
lifecycle == <<trained, evaluated, registry, registering>>
promotions == <<clock, promoting, assigned, outbox>>
scoring == <<publicKey, cache, looking, scored>>
vars == <<artifacts, lifecycle, promotions, scoring>>

Init ==
    /\ trained = {}
    /\ evaluated = [e \in Evals |-> None]
    /\ cards = [n \in Name |-> None]
    /\ packages = {}
    /\ registry = [n \in Name |-> None]
    /\ registering = [c \in Registrars |-> None]
    /\ clock = 0
    /\ promoting = [p \in Promoters |-> None]
    /\ assigned = [t \in Tickets |-> None]
    /\ outbox = {}
    /\ publicKey \in [Scorers -> Keys]
    /\ cache = [s \in Scorers |-> {}]
    /\ looking = [s \in Scorers |-> None]
    /\ scored = {}

-----------------------------------------------------------------------------
(***************************************************************************)
(* Training and evaluation.                                                *)
(***************************************************************************)

(* POST /mlops/train: the artifact is written, then the row under a fresh  *)
(* run_id.  Its file is named by its digest, so it meets only equal bytes; *)
(* one without a row is never read.                                        *)
Train(r) ==
    /\ r \notin trained
    /\ trained' = trained \cup {r}
    /\ UNCHANGED <<artifacts, evaluated, registry, registering, promotions, scoring>>

(* POST /mlops/evaluate: the policy verdict on the run's metrics, kept     *)
(* under a fresh evaluation_id; an unknown run is a 404.                   *)
Evaluate(e, r) ==
    /\ evaluated[e] = None
    /\ r \in trained
    /\ evaluated' = [evaluated EXCEPT ![e] =
                        [run |-> r, passed |-> TrainRequest[r].data \in PassingData]]
    /\ UNCHANGED <<artifacts, trained, registry, registering, promotions, scoring>>

-----------------------------------------------------------------------------
(***************************************************************************)
(* Registration.                                                           *)
(***************************************************************************)
NameOf(c) == <<registering[c].req.model, registering[c].req.version>>

(* The checks without the policy gate, and without the specs.              *)
RegistrableUngated(req) ==
    /\ req.run \in trained
    /\ evaluated[req.eval] # None
    /\ evaluated[req.eval].run = req.run
    /\ req.spec = TrainRequest[req.run].spec

RegistrableAnySpec(req) ==
    /\ req.run \in trained
    /\ evaluated[req.eval] # None
    /\ evaluated[req.eval].run = req.run
    /\ evaluated[req.eval].passed

(* The checks of register_model, all of rows that never change.  The       *)
(* model_name of the request is compared with nothing.                     *)
Registrable(req) ==
    /\ req.run \in trained
    /\ evaluated[req.eval] # None
    /\ evaluated[req.eval].run = req.run
    /\ req.spec = TrainRequest[req.run].spec
    /\ evaluated[req.eval].passed

(* datetime.now(UTC), in microseconds: no two requests read the same time. *)
(* Which one it is does not matter, only that no other card carries it.    *)
TimesSeen ==
    {cards[n].generated : n \in {m \in Name : cards[m] # None}}
    \cup {registering[c].card.generated : c \in {d \in Registrars : registering[d] # None}}
NewTimes == Times \ TimesSeen
Now == CHOOSE time \in NewTimes : TRUE

(* A request that fails a check is answered 400, 404 or 409 and leaves no  *)
(* trace.  env is the environment of the replica that serves it; the       *)
(* metadata gets the time, so that no other request has an equal card.     *)
AcceptRegistration(c, req, env) ==
    /\ registering[c] = None
    /\ Registrable(req)
    /\ NewTimes # {}
    /\ registering' = [registering EXCEPT ![c] =
                          [pc |-> "accepted", req |-> req, package |-> None,
                           card |-> [run |-> req.run, eval |-> req.eval, env |-> env,
                                     generated |-> Now]]]
    /\ UNCHANGED <<artifacts, trained, evaluated, registry, promotions, scoring>>

(* The card written with overwrite=True.                                   *)
OverwriteCard(c) ==
    /\ registering[c] # None
    /\ registering[c].pc = "accepted"
    /\ cards' = [cards EXCEPT ![NameOf(c)] = registering[c].card]
    /\ registering' = [registering EXCEPT ![c].pc = "carded"]
    /\ UNCHANGED <<packages, trained, evaluated, registry, promotions, scoring>>

(* write_model_card: a card is created.  One that is there, of whatever    *)
(* request, has another generated_at, and so other bytes: a collision.     *)
WriteCard(c) ==
    /\ registering[c] # None
    /\ registering[c].pc = "accepted"
    /\ cards[NameOf(c)] = None
    /\ cards' = [cards EXCEPT ![NameOf(c)] = registering[c].card]
    /\ registering' = [registering EXCEPT ![c].pc = "carded"]
    /\ UNCHANGED <<packages, trained, evaluated, registry, promotions, scoring>>

(* The training artifact with the version and the signature added; key is  *)
(* MODEL_SIGNING_PRIVATE_KEY_PEM of the replica that serves the request.   *)
SignedPackage(req, key) ==
    [model |-> TrainRequest[req.run].model, data |-> TrainRequest[req.run].data,
     spec |-> TrainRequest[req.run].spec, version |-> req.version, key |-> key]

(* build_signed_registered_model_artifact: the digest is part of the name, *)
(* so a write meets only equal bytes.                                      *)
WritePackage(c, key) ==
    /\ registering[c] # None
    /\ registering[c].pc = "carded"
    /\ LET signed == SignedPackage(registering[c].req, key)
       IN /\ packages' = packages \cup {<<NameOf(c), signed>>}
          /\ registering' = [registering EXCEPT ![c].pc = "signed", ![c].package = signed]
    /\ UNCHANGED <<cards, trained, evaluated, registry, promotions, scoring>>

RowFor(registration) ==
    [run |-> registration.req.run, eval |-> registration.req.eval,
     spec |-> registration.req.spec, package |-> registration.package,
     card |-> registration.card]

(* register_model_candidate: INSERT ... ON CONFLICT DO NOTHING; a row that *)
(* is there answers 409.                                                   *)
InsertRow(c) ==
    /\ registering[c] # None
    /\ registering[c].pc = "signed"
    /\ registry' = [registry EXCEPT ![NameOf(c)] = IF @ = None THEN RowFor(registering[c]) ELSE @]
    /\ registering' = [registering EXCEPT ![c] = None]
    /\ UNCHANGED <<artifacts, trained, evaluated, promotions, scoring>>

(* The replica dies, the store or the database fails, or an earlier card   *)
(* is in the way (ML_ARTIFACT_DIGEST_COLLISION): what was written stays,   *)
(* and a card without a row lets no later attempt at its version through.  *)
AbandonRegistration(c) ==
    /\ registering[c] # None
    /\ registering' = [registering EXCEPT ![c] = None]
    /\ UNCHANGED <<artifacts, trained, evaluated, registry, promotions, scoring>>

-----------------------------------------------------------------------------
(***************************************************************************)
(* Promotion: one transaction.                                             *)
(***************************************************************************)

(* promoted_at is read from the clock of the replica, which may be ahead   *)
(* of true time by MaxSkew.                                                *)
BeginPromotion(p, t, name, stage) ==
    /\ promoting[p] = None
    /\ promoting' = [promoting EXCEPT ![p] =
          [ticket |-> t,
           promotion |-> [model |-> name[1], version |-> name[2], stage |-> stage,
                          at |-> clock + Skew[p],
                          known |-> {u \in Tickets : /\ assigned[u] # None
                                                     /\ assigned[u].committed + MaxSkew < clock}]]]
    /\ UNCHANGED <<artifacts, lifecycle, clock, assigned, outbox, scoring>>

Assigned(promotion) ==
    [model |-> promotion.model, version |-> promotion.version, stage |-> promotion.stage,
     at |-> promotion.at, known |-> promotion.known, committed |-> clock]

(* The insert without the SELECT from model_registry.                      *)
CommitUnregistered(p) ==
    /\ promoting[p] # None
    /\ LET t == promoting[p].ticket
       IN /\ assigned[t] = None
          /\ assigned' = [assigned EXCEPT ![t] = Assigned(promoting[p].promotion)]
          /\ outbox' = outbox \cup {t}
    /\ promoting' = [promoting EXCEPT ![p] = None]
    /\ UNCHANGED <<artifacts, lifecycle, clock, scoring>>

(* INSERT ... SELECT FROM model_registry and the event commit together.    *)
(* model_registry itself keeps status candidate.                           *)
CommitPromotion(p) ==
    /\ promoting[p] # None
    /\ LET t == promoting[p].ticket
           promotion == promoting[p].promotion
       IN /\ registry[<<promotion.model, promotion.version>>] # None
          /\ assigned[t] = None
          /\ assigned' = [assigned EXCEPT ![t] = Assigned(promotion)]
          /\ outbox' = outbox \cup {t}
    /\ promoting' = [promoting EXCEPT ![p] = None]
    /\ UNCHANGED <<artifacts, lifecycle, clock, scoring>>

(* The version is unknown (404), the ticket is used (a unique violation,   *)
(* 500), or the replica or the database fails: nothing is kept.            *)
AbandonPromotion(p) ==
    /\ promoting[p] # None
    /\ promoting' = [promoting EXCEPT ![p] = None]
    /\ UNCHANGED <<artifacts, lifecycle, clock, assigned, outbox, scoring>>

Tick ==
    /\ clock < MaxTime
    /\ clock' = clock + 1
    /\ UNCHANGED <<artifacts, lifecycle, promoting, assigned, outbox, scoring>>

-----------------------------------------------------------------------------
(***************************************************************************)
(* Scoring: resolve_active_scoring_model and the insert of the prediction. *)
(***************************************************************************)

(* The assignments of the model and stage the process is configured for.   *)
Serving == {t \in Tickets : /\ assigned[t] # None
                            /\ assigned[t].model = ServedModel
                            /\ assigned[t].stage = ServedStage}

(* ORDER BY promoted_at without DESC.                                      *)
Oldest == {t \in Serving : \A u \in Serving : assigned[u].at >= assigned[t].at}

(* ORDER BY promoted_at DESC LIMIT 1; of equal times either may come.      *)
Active == {t \in Serving : \A u \in Serving : assigned[u].at <= assigned[t].at}

(* No active assignment is a 503 and changes nothing.                      *)
FindActive(s) ==
    /\ looking[s] = None
    /\ \E t \in Active : looking' = [looking EXCEPT ![s] = t]
    /\ UNCHANGED <<artifacts, lifecycle, promotions, publicKey, cache, scored>>

(* The registry row joined to an assignment.                               *)
RowOf(t) == registry[<<assigned[t].model, assigned[t].version>>]

(* The cache key: artifact_uri, artifact_digest and model_version.         *)
CacheHit(package, row) == package = row.package

(* The artifact is in the store with the digest of the row, and            *)
(* _validate_package accepts it.                                           *)
Loadable(t, key) ==
    LET row == RowOf(t)
        package == row.package
    IN /\ <<<<assigned[t].model, assigned[t].version>>, package>> \in packages
       /\ package.model = assigned[t].model
       /\ package.version = assigned[t].version
       /\ package.spec = row.spec
       /\ package.key = key

Prediction(t, package) == [version |-> assigned[t].version, package |-> package]

ScoreFromCache(s) ==
    /\ looking[s] # None
    /\ \E package \in cache[s] :
          /\ CacheHit(package, RowOf(looking[s]))
          /\ scored' = scored \cup {Prediction(looking[s], package)}
    /\ looking' = [looking EXCEPT ![s] = None]
    /\ UNCHANGED <<artifacts, lifecycle, promotions, publicKey, cache>>

LoadAndScore(s) ==
    /\ looking[s] # None
    /\ ~ \E package \in cache[s] : CacheHit(package, RowOf(looking[s]))
    /\ Loadable(looking[s], publicKey[s])
    /\ LET package == RowOf(looking[s]).package
       IN /\ cache' = [cache EXCEPT ![s] = @ \cup {package}]
          /\ scored' = scored \cup {Prediction(looking[s], package)}
    /\ looking' = [looking EXCEPT ![s] = None]
    /\ UNCHANGED <<artifacts, lifecycle, promotions, publicKey>>

(* The artifact is refused, or the request fails for another reason: the   *)
(* transaction is rolled back.                                             *)
FailScoring(s) ==
    /\ looking[s] # None
    /\ looking' = [looking EXCEPT ![s] = None]
    /\ UNCHANGED <<artifacts, lifecycle, promotions, publicKey, cache, scored>>

(* A restart or a redeployment, which may bring another public key.        *)
RestartScorer(s, key) ==
    /\ publicKey' = [publicKey EXCEPT ![s] = key]
    /\ cache' = [cache EXCEPT ![s] = {}]
    /\ looking' = [looking EXCEPT ![s] = None]
    /\ UNCHANGED <<artifacts, lifecycle, promotions, scored>>

-----------------------------------------------------------------------------
RegistrationStep(c) ==
    \/ \E req \in Request, env \in Environments : AcceptRegistration(c, req, env)
    \/ WriteCard(c)
    \/ \E key \in Keys : WritePackage(c, key)
    \/ InsertRow(c)
    \/ AbandonRegistration(c)

PromotionStep(p) ==
    \/ \E t \in Tickets, name \in Name, stage \in Stages :
          BeginPromotion(p, t, name, stage)
    \/ CommitPromotion(p)
    \/ AbandonPromotion(p)

ScoringStep(s) ==
    \/ FindActive(s)
    \/ ScoreFromCache(s)
    \/ LoadAndScore(s)
    \/ FailScoring(s)
    \/ \E key \in Keys : RestartScorer(s, key)

Next ==
    \/ \E r \in Runs : Train(r)
    \/ \E e \in Evals, r \in Runs : Evaluate(e, r)
    \/ \E c \in Registrars : RegistrationStep(c)
    \/ \E p \in Promoters : PromotionStep(p)
    \/ Tick
    \/ \E s \in Scorers : ScoringStep(s)

Spec == Init /\ [][Next]_vars

-----------------------------------------------------------------------------
(***************************************************************************)
(* Properties.                                                             *)
(***************************************************************************)

(* Every table, artifact and local keeps its type.                         *)
TypeOK ==
    /\ trained \subseteq Runs
    /\ evaluated \in [Evals -> Evaluation \cup {None}]
    /\ cards \in [Name -> Card \cup {None}]
    /\ packages \subseteq Name \X Package
    /\ registry \in [Name -> Row \cup {None}]
    /\ registering \in [Registrars -> Registration \cup {None}]
    /\ clock \in Nat
    /\ promoting \in [Promoters -> Promoting \cup {None}]
    /\ assigned \in [Tickets -> Assignment \cup {None}]
    /\ outbox \subseteq Tickets
    /\ publicKey \in [Scorers -> Keys]
    /\ cache \in [Scorers -> SUBSET Package]
    /\ looking \in [Scorers -> Tickets \cup {None}]
    /\ scored \subseteq [version : Versions, package : Package]

(* Whatever replicas register a version together and wherever one dies,    *)
(* a registry row has its artifacts: the stored card is byte for byte the  *)
(* one its checksum was computed from, that of the very request which      *)
(* inserted the row, the stored package the one that request signed, both  *)
(* for its own run.                                                        *)
RowBacked(n) ==
    LET row == registry[n]
    IN /\ cards[n] = row.card
       /\ <<n, row.package>> \in packages
       /\ row.card.run = row.run
       /\ row.card.eval = row.eval
       /\ row.package.data = TrainRequest[row.run].data

RegistryBacked == \A n \in Name : registry[n] # None => RowBacked(n)

(* A prediction can be audited: the version it carries names a row whose   *)
(* package made it, that version was approved for the served stage, and    *)
(* its data passed the policy in an evaluation of its own run, which was   *)
(* trained under the served name: of a row whose run has another name,     *)
(* which register lets through, no package scores, from the cache neither. *)
Traceable(prediction) ==
    LET row == registry[<<ServedModel, prediction.version>>]
    IN /\ row # None
       /\ row.package = prediction.package
       /\ prediction.package.model = ServedModel
       /\ prediction.package.version = prediction.version
       /\ prediction.package.data \in PassingData
       /\ evaluated[row.eval] = [run |-> row.run, passed |-> TRUE]
       /\ \E t \in Serving : assigned[t].version = prediction.version

ScoresTraceable == \A prediction \in scored : Traceable(prediction)

(* What register accepts and promote approves, scoring can load: only a    *)
(* run trained under another model name, which register does not compare,  *)
(* or a key pair that was replaced makes scoring refuse it.                *)
PromotedModelLoads ==
    \A t \in Serving, s \in Scorers :
        \/ RowOf(t).package.model # ServedModel
        \/ RowOf(t).package.key # publicKey[s]
        \/ Loadable(t, publicKey[s])

(* A model that was replaced stays replaced: no scoring request finds an   *)
(* assignment active once one is in force whose promotion began more than  *)
(* the clocks' skew after it was committed.                                *)
SupersededStaysOut ==
    [][\A s \in Scorers :
          looking'[s] # looking[s] /\ looking'[s] # None =>
              \A u \in Serving : looking'[s] \notin assigned[u].known]_vars

-----------------------------------------------------------------------------
(***************************************************************************)
(* The inductive invariant.                                                *)
(***************************************************************************)

(* An evaluation row is the policy's verdict on a run with a row.          *)
EvaluationsHonest ==
    \A e \in Evals : evaluated[e] # None =>
        /\ evaluated[e].run \in trained
        /\ evaluated[e].passed = (TrainRequest[evaluated[e].run].data \in PassingData)

(* A registration under way passed the checks, and what it wrote is there. *)
RegistrationBacked(c) ==
    LET doing == registering[c]
    IN /\ Registrable(doing.req)
       /\ doing.card.run = doing.req.run
       /\ doing.card.eval = doing.req.eval
       /\ doing.pc # "accepted" => cards[NameOf(c)] = doing.card
       /\ doing.pc = "signed" =>
             /\ <<NameOf(c), doing.package>> \in packages
             /\ doing.package = SignedPackage(doing.req, doing.package.key)

RegistrationsBacked == \A c \in Registrars : registering[c] # None => RegistrationBacked(c)

(* The card of a registration under way is its own: no other has an equal. *)
CardsApart ==
    \A c, d \in Registrars :
        registering[c] # None /\ registering[d] # None /\ c # d =>
            registering[c].card # registering[d].card

(* A row is what some registration that passed the checks wrote.           *)
RowSound(n, row) ==
    LET request == TrainRequest[row.run]
    IN /\ cards[n] = row.card
       /\ <<n, row.package>> \in packages
       /\ row.card.run = row.run
       /\ row.card.eval = row.eval
       /\ evaluated[row.eval] = [run |-> row.run, passed |-> TRUE]
       /\ row.spec = request.spec
       /\ row.package = [model |-> request.model, data |-> request.data, spec |-> request.spec,
                         version |-> n[2], key |-> row.package.key]

RowsSound == \A n \in Name : registry[n] # None => RowSound(n, registry[n])

(* What a promotion knew when it began has an earlier promoted_at.         *)
KnownEarlier(known, at) == \A u \in known : assigned[u] # None /\ assigned[u].at < at

PromotionsOrdered ==
    \A p \in Promoters : promoting[p] # None =>
        /\ promoting[p].promotion.at <= clock + MaxSkew
        /\ KnownEarlier(promoting[p].promotion.known, promoting[p].promotion.at)

AssignmentsOrdered ==
    \A t \in Tickets : assigned[t] # None =>
        /\ RowOf(t) # None
        /\ assigned[t].at <= assigned[t].committed + MaxSkew
        /\ KnownEarlier(assigned[t].known, assigned[t].at)

(* A process has in its cache only what its own public key verified and    *)
(* what was trained under the served name: a replaced key takes the cache  *)
(* with it.                                                                *)
CachesVerified ==
    \A s \in Scorers : \A package \in cache[s] :
        package.key = publicKey[s] /\ package.model = ServedModel

LookingServing == \A s \in Scorers : looking[s] # None => looking[s] \in Serving

IInv ==
    /\ TypeOK
    /\ EvaluationsHonest
    /\ RegistrationsBacked
    /\ CardsApart
    /\ RowsSound
    /\ PromotionsOrdered
    /\ AssignmentsOrdered
    /\ LookingServing
    /\ CachesVerified
    /\ ScoresTraceable

=============================================================================
