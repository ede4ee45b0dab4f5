SPECIFICATION FairSpec
CONSTANTS
    MaxMsgs = 3
    MaxRegistrations = 2
    ChanCap = 1
    BatchSize = 2
    Malformed = {2}
    ToWebhook = {1, 3}
INVARIANTS
    NoUseAfterClose
    CancelIsClean
    QuitUnregisters
PROPERTIES
    DeliversInOrder
    CancelReturns
    MessagesAreDequeued
