SPECIFICATION Spec
CONSTANTS
  NFrames = 12
  PageSize = 4
  Wrap16 = 8
  EndKernel = 9
  MemoryMaps <- AllMaps
INVARIANTS
  TypeOK
  KernelNeverTaken
  NullMeansFull
  AvailableNotWithheld
PROPERTIES
  SetupCompletesIfBoundsFit
  ImplementsFramePool
