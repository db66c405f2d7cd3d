\* Any instructions, a one-shot timer and the CMOS clock.
SPECIFICATION FairSpec
CONSTANTS
  Cap = 3
  Second = 4
  RtcPeriod = 2
  Counts = {1, 3}
  Periodic = FALSE
INVARIANTS TypeOK TimeKept
PROPERTIES ShadowKept IdleWakes RtcKeepsTicking
