SPECIFICATION Spec
CONSTANTS
    None = None
    c1 = c1
    r1 = r1
    Certificates = {c1}
    Readers = {r1}
    DayValues <- FewDays
    MaxIssue = 2
PROPERTY AlertsAreCrossings
