\* Suggestions and joins, and the requests that arrange the library, two at a time.
\* The requests of Structure are bounded: it stops when they are used up.
SPECIFICATION Parts
CONSTANTS
    Files = {"f1", "f2", "f3"}
    Late <- Later
    Metas <- Known
    Order <- Alphabetical
    SplitSeconds <- Splits
    GapMin = 0
    GapMax = 1
    Tolerance = 1
    StartTolerance = 1
    MaxSpan = 2
    BatchWindow = 1
    Budget = 5
    MaxRequests = 2
    MaxFaults = 1
    None = None
INVARIANTS
    TypesOK
    JoinedOnce
    SuggestionsFit
    Agreement
    Organised
PROPERTIES
    DismissedStays
    GroupsSettle
CHECK_DEADLOCK FALSE
