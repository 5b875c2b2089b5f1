SPECIFICATION Spec
CONSTANTS
    order = order
    claim = claim
    refund = refund
    retryOrder = retryOrder
    timerOrder = timerOrder
    timerClaim = timerClaim
    timerRefund = timerRefund
    nightly = nightly
    Inst = {order, claim, refund}
    Retry = {retryOrder}
    Timer = {timerClaim, timerRefund}
    Start = {nightly}
    On <- OwnOn
    Sound = {}
    Unrecorded = {nightly}
    Limit = 2
    CommitOnError = {TRUE}
    MaxCrashes = 0
INVARIANTS FailureCanBeRetried
CHECK_DEADLOCK FALSE
