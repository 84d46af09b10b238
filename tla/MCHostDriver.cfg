SPECIFICATION Spec
CONSTANTS
  Programs <- MCPrograms
  Pointers = {1, 2}
  PageCount <- MCPageCount
  MaxCalls <- MCMaxCalls
  MaxChanges = 2
INVARIANTS
  DoneMeansRun
  WordsBelongTogether
  SettingsKept
  HandlesBalanced
  LoadedBeforeRelease
PROPERTIES
  PollEnds
CHECK_DEADLOCK FALSE
