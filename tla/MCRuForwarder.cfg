SPECIFICATION FairSpec
CONSTANTS
  uplane = uplane
  interfaces = interfaces
  Element <- MCElement
  Startup <- MCStartup
  None = None
  OwnsAlarm = TRUE
  MaxCommits = 2
  MaxDrops = 1
  MaxReboots = 1
  MaxRestarts = 1
INVARIANTS
  NewestInHand
  BootstrapKept
  OutageTold
PROPERTIES
  RuNeverGoesBack
  CatchesUp
\* Nothing to forward, no commit left: both tasks only wait.
CHECK_DEADLOCK FALSE
