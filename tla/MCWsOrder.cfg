\* The order of websocket.connect and websocket.receive, for upgrades of both kinds.
SPECIFICATION Spec
CONSTANTS
    Channels = {c1}
    Payloads <- SmallSizes
    MaxMessages = 1
    MaxReceives = 2
INVARIANTS
    OrderCounts
CHECK_DEADLOCK FALSE
