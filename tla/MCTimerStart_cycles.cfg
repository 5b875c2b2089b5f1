SPECIFICATION FairSpec
CONSTANTS
    report = report
    backup = backup
    audit = audit
    Once = Once
    Forever = Forever
    Def = {report, backup, audit}
    Cycles <- AllCycles
    Period <- AllPeriods
    Second = 2
    MaxTime = 9
    LastImport = 1
    MaxFailures = 1
INVARIANTS FiresAsDeclared NoDrift
PROPERTIES AllFire
CHECK_DEADLOCK FALSE
