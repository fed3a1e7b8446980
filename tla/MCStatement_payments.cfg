SPECIFICATION FairStSpec
CONSTANTS
    p1 = p1
    p2 = p2
    p3 = p3
    alice = alice
    bob = bob
    elsewhere = elsewhere
    None = None
    Payments = {p1, p2, p3}
    Accounts = {alice, bob}
    Workers = {1, 2}
    Debtor <- MCDebtor
    Creditor <- MCCreditor
    Amount <- MCAmount
    Matching = {p1, p3}
    Opening <- MCOpening
    Blocked = {}
    Subscribed = {"settled", "rejected", "credited"}
    MaxCrashes = 1
    Account = alice
    Limit = 1
    MaxNow = 1
INVARIANTS EffectsMatchStatus JobTellsOutcome NoOverdraft MissedOnlyIfTied Reconciles
PROPERTIES ImplementsUnlessStale PaymentEnds
