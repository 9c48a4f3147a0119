SPECIFICATION Spec
CONSTANTS
    Leaves = {"accepted", "paid", "shipped", "closed"}
    Conditions <- Flat
    MaxRestarts = 1
INVARIANT ResolvedExactly
CHECK_DEADLOCK FALSE
