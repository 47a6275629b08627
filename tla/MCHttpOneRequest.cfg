\* One request, up to three replies of every kind, under the fairness of IIS, the
\* scheduler and the pump.
SPECIFICATION FairSpec
CONSTANTS
    Channels = {r1}
    Payloads <- AllPayloads
    MaxMessages = 3
    MaxBody = 3
INVARIANTS
    TypeOK
    ExactlyOneWakeup
    NoDanglingCallback
    ReplyNeverDropped
    BodyForwardedWhole
    NoReplyLost
    FinalReplyEndsResponse
    StreamedBeforeWaiting
PROPERTIES
    AsgiResponseRefinement
    FinalReplyFinishesRequest
    RequestReachesApplication
CHECK_DEADLOCK FALSE
