SPECIFICATION FairSpec
CONSTANTS
    t1 = t1
    t2 = t2
    m1 = m1
    pool = pool
    van = van
    s1 = s1
    Templates = {t1, t2}
    Mirrored = {m1}
    Pools = {pool}
    Vans = {van}
    Hooks = {}
    Feeds = {}
    Rank <- MCRank
    Smes = {s1}
    Slug <- MCSlug
    Runs = {1}
    MaxResets = 1
PROPERTIES Heals
INVARIANTS TwiceOnlyIfForgotten RecordsTellTruth TrazmoKnowsFirst BothSides
