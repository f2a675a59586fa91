SPECIFICATION TailSpec
INVARIANTS
    BucketZeroTogether
CHECK_DEADLOCK FALSE
