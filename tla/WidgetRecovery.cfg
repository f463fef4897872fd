SPECIFICATION FairSpec
CONSTANTS
    None = None
    s1 = s1
    s2 = s2
    s3 = s3
    Streams = {s1, s2, s3}
INVARIANT TypeOK
INVARIANT ExactlyOneSubscription
INVARIANT LiveIsFed
INVARIANT RetryOffered
INVARIANT OfflineKeepsRetry
PROPERTY RetryRecovers
