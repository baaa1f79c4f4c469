SPECIFICATION Spec
CONSTANTS
  p1 = p1
  p2 = p2
  p3 = p3
  Ents = {p1, p2, p3}
  TagsOf <- MCTagsOf
  TagOf <- MCTagOf
  Tags <- MCTags
  Sessions = 2
  MaxBytes = 1
  MaxSteps = 1
INVARIANTS
  EveryByteOnce
PROPERTIES
  StoredIsSound
  StoppedEnds
CHECK_DEADLOCK FALSE
