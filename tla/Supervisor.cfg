CONSTANTS
  NServices = 2
  NSlots = 3
  Watched = {1}
  Mounted = {1, 2}
  RestartLimit = 1
  StallLimit = 2
  MaxGen = 2
SPECIFICATION FairSpec
INVARIANTS TracksInstance NoMountLeftBehind
PROPERTIES WatchdogIsPatient DeadComesBack
