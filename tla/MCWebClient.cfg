CONSTANTS
  Page = {phone, desk}
  maxConnectCount = 1
  MaxReloads = 1
SPECIFICATION FairSpec
INVARIANTS TypeOK OneAttempt StopsForAReason
PROPERTIES KickedStaysOut SessionSettles
