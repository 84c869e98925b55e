SPECIFICATION Spec
CONSTANTS
  MAX_CONFIG_ATTRIBUTES = 6
  MaxList = 2
  Profiles = {"VP9Profile2", "H264Main", "HEVCMain"}
  Entrypoints = {"VLD", "EncSlice"}
  Types = {"RTFormat", "RateControl"}
  Bits = {"YUV420", "YUV420_10BPP"}
INVARIANTS
  CreationAgreesWithQueries
  ReportedValuesAreAccepted
  ConfigIsComplete
  AnswersFitTheirArrays
