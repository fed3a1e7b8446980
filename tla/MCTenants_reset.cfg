SPECIFICATION Spec
CONSTANTS
    r1 = r1
    r2 = r2
    r3 = r3
    c1 = c1
    c2 = c2
    None = None
    Requests = {r1, r2, r3}
    Wants <- MCWants
    Virtual = {r2}
    Callers = {c1, c2}
    MaxResets = 2
SYMMETRY Alike
INVARIANTS KeyNamesTenant RepliesHaveSubjects SettledKeepsEntries
PROPERTIES ResetWipesThePast ResetFailsOnlyIfDisturbed
\* Every request ends, and there are two resets.
CHECK_DEADLOCK FALSE
