SPECIFICATION DataSpec
CONSTANTS
    QueueLen = 3
    IndexBits = 4
    ProducerOps <- BothPuts
    ConsumerOps <- BothFetches
    MaxMsgs = 8
INVARIANTS
    RoomAfterPut
    HeldIntactUntilStale
PROPERTIES
    FetchHeadIsRecent
    FetchHeadReturnsAfterPuts
    ImplementsQueueUntilStale
    DeliveryOrderUntilStale
    LatestArrivesUntilStale
