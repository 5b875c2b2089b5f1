SPECIFICATION PollSpec
CONSTANTS
    order = order
    claim = claim
    refund = refund
    retryOrder = retryOrder
    timerOrder = timerOrder
    timerClaim = timerClaim
    timerRefund = timerRefund
    nightly = nightly
    Inst = {order, claim}
    Retry = {retryOrder}
    Timer = {timerOrder, timerClaim}
    Start = {}
    On <- SharedOn
    Sound = {}
    Unrecorded = {}
    Limit = 2
    CommitOnError = {FALSE}
    MaxCrashes = 0
PROPERTIES PassEnds
CHECK_DEADLOCK FALSE
