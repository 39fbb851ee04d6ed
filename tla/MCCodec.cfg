\* A connection, then two packets or one of any form; a store of two messages.
SPECIFICATION Spec
CONSTANTS
    LenBase = 2
    Digit = 5
    MaxDigits = 2
    Topics <- MCTopics
    Payloads <- MCPayloads
    Names <- MCNames
    Bodies <- MCBodies
    BodyLen = 5
    MaxSent = 2
    MaxLog = 2
INVARIANTS CodecTypeOK ArrivesAsPublished IdentityKept EndsForCause EveryByteRead
CHECK_DEADLOCK FALSE
