CONSTANTS
    Files <- MCFiles
    Main = "formats"
    Specs <- MCSpecs
    NrTracks = 5
    FirstTrack = 0
    LastTrack = 3
    TrackStep = 1
    Unwarned = 3
    Formats <- MCFormats
    Dumps <- MCDumps
    SectorBytes <- MCBytes
    ImageBytes <- MCImageBytes
    ClearBadSectors = TRUE
SPECIFICATION Spec
INVARIANTS FirstRangeWins ReadableIsIdentified WarningHonest
CHECK_DEADLOCK FALSE
