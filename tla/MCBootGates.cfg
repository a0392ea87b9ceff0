SPECIFICATION PowerOnSpec
CONSTANTS
  Vectors <- MCVectors
  Devices = {0, 1, 14}
  BiosMask = {5}
  bar_width = 2
  total_time_ms = 300
  frequency = 10
  WORD = 2000
  MaxLate = 2
  SECTORS_PER_TRACK = 18
  HEADS = 2
  STAGE2_SECTORS = 16
  KERNEL_SECTORS = 48
INVARIANTS GatesPresent
