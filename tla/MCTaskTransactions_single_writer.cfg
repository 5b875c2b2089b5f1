SPECIFICATION Spec
CONSTANTS
    Users = {alice, bob}
    NoUser = NoUser
    Manual = {review, approve}
    Sessions = {s1, s2, s3}
    NoSession = NoSession
    Writers = {s1}
    Instance = Instance
INVARIANTS WorkAgrees
PROPERTIES ClaimIsExclusive ImplementsContract
CHECK_DEADLOCK FALSE
