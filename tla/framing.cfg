SPECIFICATION FairSpec
CONSTANTS
    Bodies <- ThreeTexts
    BufferSize = 2
    Capacity = 4
    MaxWritten = 4
INVARIANT TypeOK
PROPERTIES ImplementsChannel HandedOver
CHECK_DEADLOCK FALSE
