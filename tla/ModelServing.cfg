SPECIFICATION Spec
CONSTANTS
    m1 = m1
    m2 = m2
    d1 = d1
    d2 = d2
    s1 = s1
    s2 = s2
    r1 = r1
    r2 = r2
    r3 = r3
    p1 = p1
    p2 = p2
    Models = {m1}
    Versions = {v1, v2}
    Runs = {r1}
    Evals = {e1}
    Data = {d1}
    Specs = {s1}
    TrainRequest <- MCOneRun
    PassingData = {d1}
    Environments = {x1}
    Times = {g1, g2, g3}
    Keys = {k1}
    Tickets = {t1, t2}
    Stages = {production}
    Registrars = {c1}
    Promoters = {p1, p2}
    Scorers = {w1}
    ServedModel = m1
    ServedStage = production
    Skew <- MCSkew
    MaxSkew = 1
    MaxTime = 2
    None = None
SYMMETRY Symmetry
CHECK_DEADLOCK FALSE
INVARIANT IInv
PROPERTY SupersededStaysOut
