SPECIFICATION FairDataSpec
CONSTANTS
    QueueLen = 5
    IndexBits = 4
    ProducerOps <- BothPuts
    ConsumerOps <- FetchTailOnly
    MaxMsgs = 12
INVARIANTS
    DataTypeOK
    IndexInBounds
    RingIntact
    HeldIntact
    RoomAfterPut
PROPERTIES
    SameMeansCaughtUp
    ImplementsQueue
    RefusesOnlyWhenFull
    TryPutNeverDiscards
    LatestArrives
