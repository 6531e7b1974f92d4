SPECIFICATION Spec
CONSTANTS
  Devices = {d1, d2}
  Nobody = nobody
  Words = {w1,w2}
  Foreign = {}
  Requests = {r1, r2}
  NoRequest = none
  PushLimit = 1
  PullLimit = 1
  MaxPushes = 2
  MaxPages = 1
  CrashPoints <- OutsideMerge
  MaxStamp <- Uneven
  MaxUpsets = 1
SYMMETRY SlotsAndWords
INVARIANTS TypeOK NoRevisionSkipped CaughtUp CleanIsStored
PROPERTIES FeedMovesForward KeepsPromise
