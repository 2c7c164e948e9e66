SPECIFICATION MCSpec
CONSTANTS
    t1 = t1
    t2 = t2
    h1 = h1
    h2 = h2
    Tabs = {t1, t2}
    Hosts = {h1, h2}
    Nowhere = Nowhere
    MaxEdits = 2
    MaxConns = 3
    MaxMishaps = 1
INVARIANTS NothingErased TabsReachRoom DifferencesExplained BadgeHonest
PROPERTIES NothingVanishes
CHECK_DEADLOCK FALSE
