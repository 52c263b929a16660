SPECIFICATION Spec
CONSTANTS
    None = None
    WordSize = 256
    PayloadLengths <- MCPayloadLengths
    FrameLengths <- MCFrameLengths
    HeaderWords <- MCHeaderWords
    LengthWords <- MCLengthWords
    NaN = NaN
    Numbers = {0, 1, 2}
    MaxParts = 3
INVARIANTS
    RoundTrip
    AcceptedIsExact
    VersionIsOrder
CHECK_DEADLOCK FALSE
