SPECIFICATION Spec
CONSTANTS
    acme = acme
    zen = zen
    ann = ann
    bob = bob
    cleo = cleo
    finance = finance
    legal = legal
    shared = shared
    mail = mail
    order = order
    bill = bill
    approve = approve
    check = check
    pay = pay
    NoGroup = NoGroup
    NoLane = NoLane
    NoMapping = NoMapping
    Tenant = {acme, zen}
    User = {ann, bob, cleo}
    Lane = {finance, legal}
    Name = {shared, mail}
    Proc = {order, bill}
    Item = {approve, check, pay}
    Home <- HomeOf
    Exact <- ExactUsers
    LocalPart <- LocalUsers
    Hash <- Hashes
    LegacyId <- LegacyIds
    Of <- ItemProc
    In <- ProcTenant
    Initiator <- ProcInitiator
    LaneOf <- ItemLane
    DataOwners <- ItemData
    Properties <- Configurations
    Directory <- Moves
INVARIANTS WorkStaysInTenant LaneGroupIsShared
PROPERTIES OwnersAreKept LaneGroupIsReached
CHECK_DEADLOCK FALSE
