SPECIFICATION PollSpec
CONSTANTS
    order = order
    claim = claim
    refund = refund
    retryOrder = retryOrder
    timerOrder = timerOrder
    timerClaim = timerClaim
    timerRefund = timerRefund
    nightly = nightly
    Inst = {order, claim, refund}
    Retry = {retryOrder}
    Timer = {timerClaim, timerRefund}
    Start = {nightly}
    On <- OwnOn
    Sound = {timerClaim}
    Unrecorded = {retryOrder, nightly}
    Limit = 3
    CommitOnError = {TRUE, FALSE}
    MaxCrashes = 1
INVARIANTS RollbackKeepsFailures StartIsNotLost
PROPERTIES SoundJobRuns PassEnds
CHECK_DEADLOCK FALSE
