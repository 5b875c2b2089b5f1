SPECIFICATION Spec
CONSTANTS
    Users = {alice, bob}
    NoUser = NoUser
    Manual = {review, approve}
    Sessions = {s1, s2}
    NoSession = NoSession
    Writers = {s1, s2}
    Instance = Instance
PROPERTIES CompletionIsNotLost
SYMMETRY Roles
CHECK_DEADLOCK FALSE
