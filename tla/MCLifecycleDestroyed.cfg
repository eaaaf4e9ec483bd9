CONSTANTS
  Faults <- IlinkFault
  MaxEvents = 2
SPECIFICATION Spec
INVARIANT HandleIsLive
