\* The line after PostCompletion in WaitForResponseStep's callback.
SPECIFICATION Spec
CONSTANTS
    Channels = {r1}
    Payloads <- AllPayloads
    MaxMessages = 1
    MaxBody = 0
INVARIANTS
    TailUsesLiveStep
CHECK_DEADLOCK FALSE
