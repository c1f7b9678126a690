CONSTANTS
    REWIND_SLOTS = 2
    SNAP_INTERVAL = 2
    RECORDS = 5
    SCRUB_STEP = 1
    MaxInputs = 7

SPECIFICATION FairSpec

INVARIANTS
    TypeOK
    SnapshotsAreThePast
    HopFindsSnapshot
    LabelsExact

PROPERTIES
    TimeGoesBack
    ReplayArrives
