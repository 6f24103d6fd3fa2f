SPECIFICATION FairSpec
CONSTANTS
  MaxRun = 1
  MaxFrame <- OneRun
  Capacity = 2
  PublishCapacity = 1
  Attempts = 2
  Epoch <- Start
INVARIANTS
  TypeOK
  FramesConserved
  StoredFramesConserved
  PublishedInOrder
  
  NeverStuck
PROPERTIES
  FramesOnLedger
  WorkShrinks
  CancelledDecoderEnds
  ConsumersEnd
CHECK_DEADLOCK FALSE
