\* Two channels, clients that use the whole interface of the pump.
SPECIFICATION FairSpec
CONSTANTS
    Channels = {c1, c2}
    Payloads <- OnePayload
    MaxMessages = 2
    MaxRegistrations = 2
INVARIANTS
    TypeOK
    RegistrationFate
    DropsOnlyForRemovals
    MessageFiresOnce
PROPERTIES
    DestructorReturns
CHECK_DEADLOCK FALSE
