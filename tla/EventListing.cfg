SPECIFICATION ListingSpec
CONSTANTS
    r1 = r1
    r2 = r2
    c1 = c1
    c2 = c2
    c3 = c3
    e1 = e1
    e2 = e2
    e3 = e3
    Records = {r1, r2}
    Contents = {c1, c2, c3}
    Events = {e1, e2, e3}
    RecordOf <- OneRecord
    Lists <- OneList
    Ingesters = {i1, i2}
    MaxReads = 3
    Clients = {k1}
    IdOf <- OneOrder
    DateOf <- OneDate
    KindOf <- OneKind
    Filters <- OneFilters
    Limits = {1, 2}
CHECK_DEADLOCK FALSE
INVARIANTS
    ListingTypeOK
    EventsHaveProvenance
    ObservationsHaveEvents
    SerialEventsAreLatest
    ScansMissNothing
    PagesRunNewestFirst
    ShownEventsStay
