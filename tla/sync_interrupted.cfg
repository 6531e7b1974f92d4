SPECIFICATION FairSpec
CONSTANTS
  Devices = {d1, d2}
  Nobody = nobody
  Words = {w1}
  Foreign = {}
  Requests = {r1, r2}
  NoRequest = none
  PushLimit = 1
  PullLimit = 1
  MaxPushes = 1
  MaxPages = 2
  CrashPoints <- Anywhere
  MaxStamp <- Uneven
  MaxUpsets = 1
PROPERTIES EventuallyConverged
