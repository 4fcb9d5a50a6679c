CONSTANTS
  E = 4
  Pages = 80
  Boards <- FarBoards
  N = 4
  Builds <- AllBuilds
  BootHart = 1
  MayRefuse = {1, 2, 3}
  MayFail = {0, 1, 2, 3}
  BuildsOf <- MCBuildsOf
SPECIFICATION RunSpec
INVARIANTS
  OnePrinter
  OwnStack
  NoCpuMissing
  NotOverItself
  Unpacked
  Translated
PROPERTIES
  AllInKernel
\* The CPUs stop in the kernel, or in a loop after an error, or the tool has
\* refused the board.
CHECK_DEADLOCK FALSE
