CONSTANTS
    Tracks <- MCTracks
    HalfBits = 2
    Words <- MCWords
    RawWords <- MCRaw
    Gaps <- MCGaps
SPECIFICATION Spec
INVARIANTS GapFilled MfmLegal ReadsBack
