SPECIFICATION StreamSpec
CONSTANTS
  kRegByteSize = 4
  kGrowBytes = 4
  Elements <- MCElements
  Slices <- MCSlices
  MaxElements = 9
  MaxUnits = 2
  Profiles = {"H264ConstrainedBaseline", "H264Main", "H264High"}
  Pictures <- MCPictures
INVARIANTS
  ReadsBack
  WritesFitTheBuffer
  NeverTraps
  StreamSplitsIntoUnits
  
CHECK_DEADLOCK FALSE
