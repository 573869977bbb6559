SPECIFICATION TeamSpec
CONSTANTS
    ann = ann
    Members = {ann, ben, cas}
    Founder = ann
    Addresses = {a1, a2, a3, a4}
    FirstAddress = a1
    MaxTokens = 2
SYMMETRY TeamSymmetry
INVARIANT OwnerRemains
CHECK_DEADLOCK FALSE
