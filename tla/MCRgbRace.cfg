CONSTANTS
  Caller = {cloud, local}
  NChannel = 2
  Duty = {0, 1}
  Zero = 0
  Palette <- AllColours
  SparkPalette <- Blink
SPECIFICATION FairSpec
INVARIANTS TypeOK NoLostUpdate UpdateIsPending LampFollows
PROPERTY LampCatchesUp
