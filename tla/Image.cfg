CONSTANTS
  PageBits = 2
  PageTableBits = 2
  VSpaceBits = 2
  RootCNodeBits = 3
  FixedRootserver = 6
  PagingIndexBits <- MCPagingIndexBits
  MaxUntypedBits = 6
  VirtualBase = 256
  WordSize = 9
  NoPaddr = NoPaddr
  Systems <- MCSystems
  SpecSizes = {5, 7, 11}
  ElfSize = 9
  FrameDataSize = 3
  HeadersPerUnit = 8
  MaxBuildIteration = 3
SPECIFICATION Spec
\* The tool ends.
CHECK_DEADLOCK FALSE
INVARIANTS
  QuestionSound
  AllocationSound
  PanicExplained
  AddressesKept
PROPERTIES
  PlacementKept
  BuildEnds
