SPECIFICATION FairSpec
CONSTANTS
    Commands <- MCCommands
    EventAddMsgs = 10
CHECK_DEADLOCK FALSE
INVARIANTS
    TypeOK
    ResultCountsEvents
PROPERTIES
    Terminates
