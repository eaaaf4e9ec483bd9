CONSTANTS
  Task = {cloud, local}
  Server = {local}
  MaxOut = 2
  MaxIn = 1
SPECIFICATION FairSpec
INVARIANTS TypeOK StreamInOrder HealthyIsKept
PROPERTY DeadIsGivenUp
