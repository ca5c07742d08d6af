\* Enrichment, previews and exports, with requests, failures and kills between their
\* steps; no symmetry, it is unsound for liveness.
SPECIFICATION Parts
CONSTANTS
    Resources = {"r1"}
    Dates = {"d1", "d2"}
    Positions = {"home", "garden", "gate", "far"}
    Near <- Nearby
    Pin <- Pins
    Nameless = {}
    Threshold = 1
    Batch = 1
    MaxEdits = 2
    MaxOutages = 1
    None = None
    Typed = Typed
    Whole = Whole
    Partial = Partial
INVARIANTS
    TypesOK
    DerivedFitsDate
    NameFitsPlace
    MarkedHasFile
    DownloadFits
PROPERTIES
    ByHandStays
    CatchesUp
    NotRetried
    AllMade
    ExportsEnd
