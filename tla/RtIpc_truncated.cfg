SPECIFICATION Spec
CONSTANTS
    UsizeBits = 16
    WordBits = 8
    Params <- WideParams
    MaxConsumers = 1
    MaxProducers = 1
    Cookies = {1}
    Builds <- SomeBuilds
    ThisBuild <- HostBuild
    TypeSizes = {8}
INVARIANT
    AttachMirrorsCreator
CHECK_DEADLOCK FALSE
