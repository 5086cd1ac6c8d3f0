CONSTANTS
    Centres <- MCCentres
    InitCentre = 8
    MaxAdj = 10
    PeriodPct = 50
    PhasePct = 60
    LockBits = 1
    MinRevs = 1
    TypeRevs <- MCRevs
    IntMax = 60
    BadLen = 1000
    MaxBits = 1
    FluxSteps <- MCFlux
    IndexSteps <- MCIndex
    PullLimit = 28
    MaxFails = 2
SPECIFICATION Spec
INVARIANTS WellFormed FluxConserved IndexTimerExact TrackLenAccurate RevolutionLimit
