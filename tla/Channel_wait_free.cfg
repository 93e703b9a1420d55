SPECIFICATION ConsumerFairSpec
CONSTANTS
    QueueLen = 3
    IndexBits = 4
    ProducerOps <- ForcePutOnly
    ConsumerOps <- FetchHeadOnly
PROPERTY FetchHeadReturns
