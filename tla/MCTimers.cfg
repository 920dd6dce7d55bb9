CONSTANTS
  x = x
  y = y
  z = z
  Timer = {x, y, z}
  NoTimer = NoTimer
  RT_TICK_MAX = 5
  InitTick <- MCInitTick
SPECIFICATION TimerFairSpec
PROPERTIES
  ActiveIsListed
  ExpiresOnTime
  StartedBehindEquals
  CheckReturns
