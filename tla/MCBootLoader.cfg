\* The loader hands over to the kernel, or spins.
CHECK_DEADLOCK FALSE
SPECIFICATION FairSpec
CONSTANTS
  SECTSIZE = 2
  Space = 16
  ELFHDR = 0
  HDRSECTS = 2
  Kernels <- MCKernels
  Garbage <- MCGarbage
  MaxFailed = 1
INVARIANTS ImageIsTheFiles OnlyFootprintWritten
PROPERTY BootEnds
