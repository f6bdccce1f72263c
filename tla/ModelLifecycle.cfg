SPECIFICATION Spec
CONSTANTS
    m1 = m1
    m2 = m2
    d1 = d1
    d2 = d2
    s1 = s1
    s2 = s2
    r1 = r1
    r2 = r2
    r3 = r3
    p1 = p1
    p2 = p2
    Models = {m1, m2}
    Versions = {v1}
    Runs = {r1, r2, r3}
    Evals = {e1, e2}
    Data = {d1, d2}
    Specs = {s1, s2}
    TrainRequest <- MCTrainRequest
    PassingData = {d1}
    Environments = {x1}
    Times = {g1, g2, g3, g4}
    Keys = {k1, k2}
    Tickets = {t1}
    Stages = {production}
    Registrars = {c1, c2}
    Promoters = {p1}
    Scorers = {w1}
    ServedModel = m1
    ServedStage = production
    Skew <- MCNoSkew
    MaxSkew = 0
    MaxTime = 0
    None = None
SYMMETRY Symmetry
CHECK_DEADLOCK FALSE
INVARIANT RegistryBacked
INVARIANT ScoresTraceable
INVARIANT PromotedModelLoads
