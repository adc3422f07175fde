\* Requests and replies of both programs, whole, cut off, and with up to two bits flipped.
CONSTANTS
    Bits = 2
    IntSize = 2
    ClassName <- MCClassName
    FieldNames <- MCFieldNames
    FieldTypes <- MCFieldTypes
    Messages <- MCMessages
    ReplyData <- MCReplyData
    Null = Null
    MaxArray = 6
    RequestBuffer = 42
    Capacity = 43
    ReplyBuffer = 44
    MaxFlips = 2
SPECIFICATION Spec
CHECK_DEADLOCK FALSE
INVARIANTS
    TypeOK
    WholeArrives
    OneFlipIsHarmless
