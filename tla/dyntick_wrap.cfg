CONSTANTS
  Bits = 8
  OS_CFG_TICK_RATE_HZ = 1000
  TIMER_COUNT_HZ = 10000
  Requests <- AllDelays
SPECIFICATION Spec
INVARIANT DeltaHonoursRequest
