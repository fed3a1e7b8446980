SPECIFICATION Spec
CONSTANTS
    p1 = p1
    p2 = p2
    p3 = p3
    p4 = p4
    alice = alice
    bob = bob
    elsewhere = elsewhere
    None = None
    Payments = {p1, p2}
    Accounts = {alice, bob}
    Workers = {1, 2}
    Debtor <- MCDebtor
    Creditor <- MCCreditor
    Amount <- MCAmount
    Matching = {p1, p2}
    Opening <- MCOpening
    Blocked = {}
    Subscribed = {}
    MaxCrashes = 0
INVARIANTS BalanceFollowsEntries
\* Once every payment has ended, no job is left to fire.
CHECK_DEADLOCK FALSE
