SPECIFICATION Spec
CONSTANTS
    r1 = r1
    r2 = r2
    r3 = r3
    r4 = r4
    q1 = q1
    q2 = q2
    m1 = m1
    m2 = m2
    pay = pay
    other = other
    ask = ask
    mandate = mandate
    None = None
    Requests = {q1, q2, m1, m2}
    Key <- MCKey
    Body <- MCBody
    Money = {}
    Flushing = {q1, q2}
    Failing = {}
    AnswerFirst = FALSE
    MaxCrashes = 0
INVARIANTS PendingMeansInFlight
\* Every request has been answered.
CHECK_DEADLOCK FALSE
