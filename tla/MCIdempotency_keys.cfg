SPECIFICATION FairSpec
CONSTANTS
    r1 = r1
    r2 = r2
    r3 = r3
    r4 = r4
    q1 = q1
    q2 = q2
    m1 = m1
    m2 = m2
    pay = pay
    other = other
    ask = ask
    mandate = mandate
    None = None
    Requests = {r1, r2, r4, q1, q2, m1}
    Key <- MCKey
    Body <- MCBody
    Money = {r1, r2, r4}
    Flushing = {r1, r2, r4, q1, q2}
    Failing = {r1, r4}
    AnswerFirst = FALSE
    MaxCrashes = 1
INVARIANTS EffectOnce RecordFollowsEffect
PROPERTIES ImplementsService EveryRequestAnswered
\* Every request has been answered.
CHECK_DEADLOCK FALSE
