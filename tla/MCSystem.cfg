CONSTANTS
  Task = {cloud}
  User = {phone, desk, other}
  Page = {phone, desk}
  Nobody = Nobody
  Seq8 = {1, 2}
  Colour <- Payload
  Dark <- c00
  Bytes <- PayloadBytes
  c00 = c00
  c09 = c09
  c90 = c90
  c99 = c99
  Absent = Absent
  Frames <- AllFrames
  Strays <- StrayFrames
  NoMessage = NoMessage
  Junk = Junk
  NoCall = NoCall
  NChannel = 2
  Position = {0, 99}
  MaxMoves = 2
  MaxLosses = 1
  MaxWire = 2
SPECIFICATION SystemFairSpec
INVARIANTS SystemTypeOK ReplyToSender SuccessIsVisible LampShowsPanel
PROPERTIES LampSettles ImplementsService
CHECK_DEADLOCK FALSE
