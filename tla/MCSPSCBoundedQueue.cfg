SPECIFICATION FairSpec
CONSTANTS
    m_capacity = 2
    MaxPushes = 5
    Value = {v1, v2}
INVARIANTS
    TypeOK
    NoSlotRace
    IndexOrder
PROPERTIES
    ImplementsFifo
    PushReturns
    Drained
