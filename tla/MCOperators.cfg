SPECIFICATION OpSpec
CONSTANTS
    Operators = {ann, ben}
    Nobody = Nobody
    Requests = {r1, r2}
    MaxAttempts = 2
    MaxStep = 3
    MaxSecrets = 2
    MaxStarts = 6
SYMMETRY OperatorSymmetry
INVARIANTS OpTypeOK OperatorRemains SecondFactorHolds
