CONSTANTS
  Task = {cloud, local}
  Server = {local}
  MaxOut = 2
  MaxIn = 1
SPECIFICATION Spec
INVARIANT FailedSendIsFailure
