CONSTANTS
    Files <- OnSafari
    Main = "formats"
    Specs <- SafariGuns
    NrTracks = 5
    FirstTrack = 0
    LastTrack = 3
    TrackStep = 1
    Unwarned = 3
    Formats <- MCFormats
    Dumps <- OneDump
    SectorBytes <- MCBytes
    ImageBytes <- MCImageBytes
    ClearBadSectors = TRUE
SPECIFICATION Spec
INVARIANTS ListedIsFound
CHECK_DEADLOCK FALSE
