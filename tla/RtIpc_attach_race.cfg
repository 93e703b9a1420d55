SPECIFICATION Spec
CONSTANTS
    UsizeBits = 16
    WordBits = 16
    Params <- SmallParams
    MaxConsumers = 1
    MaxProducers = 2
    Cookies = {324508639, 1}
    Builds <- SomeBuilds
    ThisBuild <- HostBuild
    TypeSizes = {8, 12}
INVARIANT
    AttachedChannelsInitialised
CHECK_DEADLOCK FALSE
