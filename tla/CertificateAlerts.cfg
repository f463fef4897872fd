SPECIFICATION FairSpec
CONSTANTS
    None = None
    c1 = c1
    r1 = r1
    r2 = r2
    Certificates = {c1}
    Readers = {r1, r2}
    DayValues <- Days
    MaxIssue = 2
INVARIANT TypeOK
PROPERTY AlertsUntilRenewal
PROPERTY NoFalseAlarm
PROPERTY ExpiryAnnounced
