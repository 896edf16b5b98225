SPECIFICATION Spec
CONSTANTS
    Keys = {k1}
    Calls = {c1, c2}
    Never = Never
    NoRow = NoRow
    MaxTime = 2
    UserIds = {u1, u2}
    AdminId = AdminId
    ADMIN_USERNAME = admin
    ADMIN_PASSWORD = adminpw
    Usernames = {admin, alice}
    Passwords = {adminpw, pw}
    TempPassword = temp
    PermissionLists <- Lists
    NoUser = NoUser
    ACCESS_TTL = 1
    REFRESH_TTL = 2
    MaxTokens = 3
    MaxClock = 2
SYMMETRY Symmetry
INVARIANTS
    RevokedStaysOut
    ExpiredRefused
    LoginDeterministic
PROPERTIES
    WritesAuthorized
    DeletedOnlyRefresh
