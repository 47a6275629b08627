\* One connection, upgrades that complete at once and later, writes that are partial or
\* fail, under the fairness of IIS, the scheduler and the pump.
SPECIFICATION FairSpec
CONSTANTS
    Channels = {c1}
    Payloads <- SmallSizes
    MaxMessages = 2
    MaxReceives = 2
INVARIANTS
    TypeOK
    OrderCountsAfterPromptUpgrade
    OneSenderAtATime
    ListensOrWrites
    WholeMessagesWithoutTrouble
PROPERTIES
    EveryMessageIsTaken
CHECK_DEADLOCK FALSE
