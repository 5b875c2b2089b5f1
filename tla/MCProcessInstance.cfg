SPECIFICATION FairSpec
CONSTANTS
    alice = alice
    bob = bob
    review = review
    approve = approve
    charge = charge
    notify = notify
    archive = archive
    deadline = deadline
    reminder = reminder
    cooloff = cooloff
    NoUser = NoUser
    Users <- TwoUsers
    Manual <- OrderManual
    Service <- OrderService
    Timer <- OrderTimer
    Pred <- OrderPred
    Host <- OrderHost
    Delay <- OrderDelay
    MaxRetryDelay = 1
INVARIANTS
    EndedMeansClosed
    FailureIsVisible
    NoLostWork
    NoPhantomCompletion
    RetryJobNeedsError
    TimerJobCurrent
PROPERTIES
    SettledStaysSettled
    ReworkMovesNothing
    TimerProgress
    ScheduledRetryRecovers
CHECK_DEADLOCK FALSE
