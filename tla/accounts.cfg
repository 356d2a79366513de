SPECIFICATION MCSpec
CONSTANTS
    o1 = o1
    o2 = o2
    t1 = t1
    t2 = t2
    t3 = t3
    s1 = s1
    s2 = s2
    s3 = s3
    NoOwner = NoOwner
    NoToken = NoToken
    Owners = {o1, o2}
    Tokens = {t1, t2, t3}
    Sockets = {s1, s2, s3}
    Sweeps = {1, 2}
    MaxPending = 2
    DailyLimit = 2
    Day = 2
    Durations = {1}
    MaxClock = 2
    Permanent = 9
    Production = FALSE
    e1 = e1
    u1 = u1
    u2 = u2
    Users = {u1, u2}
    Identities = {g1}
    Emails = {e1, e2}
    Keys = {k1}
    Browsers = {b1}
    Requests = {r1}
    Anonymous = Anonymous
    None = None
    InProduction = FALSE
    PasswordAuth = TRUE
    KeepsSecret = TRUE
    AdminLists <- MCAdminLists
    SignupPaused = FALSE
    TokenTtl = 1
    MaxSessionTime = 2
    MaxTokens = 2
    MaxVersion = 2
INVARIANTS
  AdmissionIsTidy
  OwnershipHolds
  AccountsAreInOrder
PROPERTIES
  RevokedLeave
  OperatorsDecide
CHECK_DEADLOCK FALSE
