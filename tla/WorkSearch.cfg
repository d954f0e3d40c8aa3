\* Every (start, chunk, limit) of a 17-nonce space for every variant: up to 17
\* ranges, so the permutation size reaches 32 and has an invalid suffix.
CONSTANTS
    SpaceSizes = {1, 2}
    MaxNetworkTime = 1
    NonceLimit = 17
SPECIFICATION WorkSpec
INVARIANTS NeverRaises PreparedPrefix HashesAccounted
PROPERTY CoverSpec
CHECK_DEADLOCK FALSE
