SPECIFICATION FairSpec
CONSTANTS
    Frames <- SomeFrames
    MaxFrames = 3
    MaxTexts = 1
    Callbacks <- ConcordCallbacks
INVARIANTS
    TypeOK
    BuffersOwned
    FitsBuffer
    OutInOrder
PROPERTIES
    ReadEnds
    WrittenIsSent
    ImplementsMessageStream
CHECK_DEADLOCK FALSE
