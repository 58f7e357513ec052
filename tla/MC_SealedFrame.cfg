\* A 64-bit build: int holds every u32 value.
CONSTANTS
    Base = 4
    FieldBytes = 2
    IntBits = 8
    Payloads <- MCPayloads
    Parts <- MCParts
SPECIFICATION Spec
INVARIANT TypeOK
INVARIANT FrameParserSound
INVARIANT SealerRoundTrip
