SPECIFICATION Spec
CONSTANTS
    Browsers = {b1, b2}
    Connections = {c1, c2}
    Users = {u1, u2}
    Tabs = {t1, t2}
    Keys = {admin, someone}
    AdminPubKey = admin
    None = None
    stateCookieMaxAge = 1
    sessionTTL = 1
    loginTTL = 1
    adminSessionTTL = 1
    MaxLogins = 2
    MaxRestarts = 1
    MaxClock = 3
SYMMETRY AnyNames
INVARIANTS
    SessionsAreOwn
    LatestLoginSucceeds
    
