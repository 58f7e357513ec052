\* A 32-bit build (GOARCH=arm): int(u32) is negative from 2^31 on.
CONSTANTS
    Base = 4
    FieldBytes = 2
    IntBits = 4
    Payloads <- MCPayloads
    Parts <- MCParts
SPECIFICATION Spec
INVARIANT FrameParserSound
