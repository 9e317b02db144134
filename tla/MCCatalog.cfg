CONSTANTS
    Import = {t1, t2, t3}
    Batch <- MCBatch
    Day = {d1}
    CostItem = {fuel, note}
    Extra = {note}
    Slugify <- MCSlugify
    Upper <- MCUpper
    Client = {c1}
    Limit = 1
    Null = Null
    acme = acme
    acmeInc = acmeInc
    ACME = ACME
    other = other
    ab = ab
    aSlashB = aSlashB
    name1 = name1
    name2 = name2
    name3 = name3
    k4 = k4
    k5 = k5
    k1 = k1
    k2 = k2
    k3 = k3
    eng1 = eng1
    fuel = fuel
    note = note
SPECIFICATION CatalogSpec
CHECK_DEADLOCK FALSE
SYMMETRY Symmetry
INVARIANTS
    VariantSlugsUnique
    PromotedIsConsistent
    ScanIsComplete
PROPERTIES
    MarketStands
