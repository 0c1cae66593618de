\* Command lines, configurations and references.
SPECIFICATION Spec
CONSTANTS
  Inputs <- MCInputs
  Numbers <- MCNumbers
  TooBig = {"10^20"}
  Bounds = {"box"}
  Unreadable = {"none.pbf", "-t", "-o"}
  Unknown = {"--fast"}
  WordSpace = 64
INVARIANTS
  TypeOK
  OptionsMeanWhatTheySay
  ConfigIsTheFilesRecords
  RangeHoldsReferences
  ThresholdIsTheFilters
