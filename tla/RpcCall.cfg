\* One call at a time: every schema value whole, some streams in pieces.
CONSTANTS
    Jobs <- MCJobs
    MaxSequence = 500
    Stream <- StreamOf
    Request <- RequestMessage
    Answer <- AnswerMessage
    RequestIn <- RequestOf
    AddressedTo <- HandledBy
    ValueIn <- ResponseOf
    ErrorIn <- ErrorOf
    Encode <- encodeReqResMessage
    DecodePrefix <- decodeReqResMessageSequencePrefix
    DecodeAll <- decodeReqResMessageSequence
SPECIFICATION Spec
INVARIANTS
    ValuesInOrder
    RequestsArrive
    ErrorsAreAnswers
PROPERTIES
    CallEnds
CHECK_DEADLOCK FALSE
