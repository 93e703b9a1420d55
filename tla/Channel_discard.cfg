SPECIFICATION Spec
CONSTANTS
    QueueLen = 3
    IndexBits = 4
    ProducerOps <- ForcePutOnly
    ConsumerOps <- FetchTailOnly
PROPERTY DiscardReported
