SPECIFICATION Spec
CONSTANTS
  MaxTests = 1
  Profiles = 2
  WithPlugin = {1}
  MaxScreens = 2
  UrlProfiles = {p1}
  Workers = {w1, w2}
  MaxUrlTests = 1
INVARIANTS
  TestsExclusive
  NothingLeft
  ResultsKept
PROPERTIES
  CancelsEnd
CHECK_DEADLOCK FALSE
