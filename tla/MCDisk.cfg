CONSTANTS
    Names <- MCNames
    NrTracks <- MCNrTracks
    Handlers <- MCHandlers
    Blank <- MCBlank
    Bad <- MCBad
    Payloads <- OnePayload
    SavedSectors = 1
    TagIds <- MCTagIds
    SwizzledIds <- MCSwizzled
    TagValues <- MCTagValues
    EndTag = 9
    DefaultBits = 9
    Weak <- MCWeak
    Lengths <- MCLengths
    Offsets <- MCOffsets
    MaxChanges = 1
    Seen <- MCSeen
SPECIFICATION Spec
INVARIANTS TracksSound ReopenKeeps ClosedImageOpens NoTornAdf TagsKept
