\* Three connections; every configuration of MCConfigs.
CONSTANTS
  Conns = {h1, h2, h3}
  Configs <- MCConfigs
SPECIFICATION LiveSpec
CHECK_DEADLOCK FALSE
INVARIANTS
  RelayWithinItsMeans
  CutOffOnlyWhenLate
  CleanExit
  NothingLeftOpen
PROPERTIES
  ServedOnlyWhenReady
  Ends
