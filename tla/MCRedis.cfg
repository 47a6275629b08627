\* Two channels and three messages that are kept for two seconds, lists for one more.
SPECIFICATION FairSpec
CONSTANTS
    Channels = {c1, c2}
    DataKeys = {k1, k2, k3}
    m_expiry = 2
    Margin = 1
INVARIANTS
    TypeOK
PROPERTIES
    ChannelLayerRefinement
    ListOutlivesItsMessages
    NothingStaysForever
CHECK_DEADLOCK FALSE
