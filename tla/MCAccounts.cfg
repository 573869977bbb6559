SPECIFICATION AccSpec
CONSTANTS
    Requests = {r1, r2}
    Passwords = {pw1, pw2}
    NoPassword = NoPassword
    Addresses = {home, away}
    Home = home
    MaxAttempts = 2
    MaxWrong = 3
    MaxSessions = 3
    MaxLinks = 3
    MaxStarts = 5
SYMMETRY AccountSymmetry
INVARIANTS AccTypeOK RotationIsLinear RevocationHolds LockoutCounts PasswordIsTheChosenOne
