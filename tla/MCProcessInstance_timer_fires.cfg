SPECIFICATION FairSpec
CONSTANTS
    alice = alice
    bob = bob
    review = review
    approve = approve
    charge = charge
    notify = notify
    archive = archive
    deadline = deadline
    reminder = reminder
    cooloff = cooloff
    NoUser = NoUser
    Users <- OneUser
    Manual <- OrderManual
    Service <- OrderService
    Timer <- OrderTimer
    Pred <- OrderPred
    Host <- OrderHost
    Delay <- OrderDelay
    MaxRetryDelay = 1
PROPERTIES
    TimerFires
CHECK_DEADLOCK FALSE
