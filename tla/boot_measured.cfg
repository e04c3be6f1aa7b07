SPECIFICATION BootSpec
CONSTANTS
  BOOT_STAGE_COUNT = 7
  HalStages = {1, 2, 3}
  HardwareDetect = 1
  FirstWitness = 5
  RamSize = 128
  MaxRuns = 3
INVARIANT MeasuredFirst
CHECK_DEADLOCK FALSE
