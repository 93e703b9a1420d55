SPECIFICATION DataSpec
CONSTANTS
    QueueLen = 3
    IndexBits = 4
    ProducerOps <- BothPuts
    ConsumerOps <- BothFetches
    MaxMsgs = 5
PROPERTY DeliveryOrder
