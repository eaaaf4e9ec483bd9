CONSTANTS
  Faults <- AllButIlink
  MaxEvents = 3
SPECIFICATION FairSpec
INVARIANTS TypeOK HandleIsLive LossRestarts LampTellsLink
PROPERTY ComesOnline
