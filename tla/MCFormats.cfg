SPECIFICATION Spec
CONSTANTS
  Formats <- MCFormats
  OneWay <- MCOneWay
  GivesUp <- MCGivesUp
  Moves <- MCMoves
  Revs = 3
  MaxStart = 3
  Slack = 64
INVARIANTS ReadsBack   StaysInPlace FitsTrack
PROPERTY HeadMovesOn
