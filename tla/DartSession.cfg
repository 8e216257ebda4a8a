SPECIFICATION FairSpec
CONSTANTS
  Window = 2
  MaxOutput = 3
  MaxGarbled = 2
INVARIANTS
  NothingLost
  EveryChunkAcked
  DoneMeansOver
  NoStrayCall
PROPERTIES
  CloseAnswersAll
  DoneArrives
CHECK_DEADLOCK FALSE
