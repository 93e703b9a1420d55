SPECIFICATION Spec
CONSTANTS
    QueueLen = 3
    IndexBits = 4
    ProducerOps <- BothPuts
    ConsumerOps <- BothFetches
INVARIANTS
    TypeOK
PROPERTIES
    PutReturns
    FetchTailReturns
