CONSTANTS
    Centres <- MCCentres
    InitCentre = 8
    MaxAdj = 10
    PeriodPct = 50
    PhasePct = 60
    LockBits = 3
    MinRevs = 2
    TypeRevs <- NoSteps
    IntMax = 2000
    BadLen = 1000
    MaxBits = 1
    FluxSteps <- NoSteps
    IndexSteps <- NoSteps
    PullLimit = 0
    MaxFails = 2
    Kinds <- MCScpOnly
    TrackNrs <- MCTracks
    DriveRpm = 1
    DataRpm = 1
    ImageReads <- MCImage
    TrackNs = 40
    SpeedAvg = 10
    GapLimit = 20
    KfsData <- MCKfs
    ScpData <- MCScp
    Tick = 4
    Overflow = 7
    ShortPulse = 5
    EdTicks = 1
    DrData <- MCDr
    Dfe2Data <- MCDfe2
    Dfe2Carry = 9
    KfsPs = 41
    Dfe2Ps = 40
    PsPerNs = 10
    Word = 350
    NoLimit = 999
SPECIFICATION SrcSpec
INVARIANTS JitterBooked
