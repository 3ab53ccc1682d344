SPECIFICATION OptionsSpec
CONSTANTS
  Speeds <- MCSpeeds
  Processors <- MCProcessors
  Preferences <- MCPreferences
  NotANumber = NotANumber
  Caches <- MCCaches
INVARIANTS
  FasterSkipsNoMore
CHECK_DEADLOCK FALSE
