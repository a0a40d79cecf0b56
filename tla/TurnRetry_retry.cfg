SPECIFICATION MCSpec
CONSTANTS
    CyberLimit = 1
    Window = 2
    Delays <- MCDelays
    Times = {1, 2}
    Jitters = {0}
    Outcomes <- MCOutcomes
    MaxId = 2
    MaxTurn = 3
    MaxMoves = 1
INVARIANTS
    TypeOK
    NoLostReceipt
    AtMostOneContinuation
    QuotaRespected
PROPERTIES
    NoSendAfterEnd
    NoOldFailureContinued
CHECK_DEADLOCK FALSE
