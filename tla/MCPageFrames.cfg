SPECIFICATION Spec
CONSTANTS
  LowerPages = 3
  UpperBase = 4
  UpperPages = 3
  BatchSize = 2
  Junk = Junk
INVARIANTS TypeOK RingMatchesPool FramesPartitioned CountersAgree NoAssertFails
PROPERTIES FreedFrameIsNext ImplementsPromise
