SPECIFICATION FairSpec
CONSTANTS
    g1 = g1
    g2 = g2
    m1 = m1
    Guest = {g1, g2}
    Migratable = {g1, g2}
    Migrator = {m1}
    Goal <- MigrateFirst
    Pod = {p1, p2}
    Exempt = {p2}
INVARIANT TypeOK
INVARIANT DrainedIsEmpty
PROPERTY DrainSettles
CHECK_DEADLOCK FALSE
