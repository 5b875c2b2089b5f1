SPECIFICATION FairSpec
CONSTANTS
    s1 = s1
    s2 = s2
    s3 = s3
    s4 = s4
    acme = acme
    acmeSlug = acmeSlug
    other = other
    ann = ann
    bob = bob
    task7 = task7
    NoId = NoId
    Committed = Committed
    Granters = {s1, s2, s3, s4}
    Call <- ConcurrentCalls
    Identifiers <- TenantIdentifiers
    Request <- TaskRequests
    MaxAborts = 1
INVARIANTS OneRowPerKey ReloadFinds DecisionMatchesGrants
PROPERTY AllProvisioned
CHECK_DEADLOCK FALSE
