SPECIFICATION Spec
CONSTANTS
    Id = {a, b, c}
    Task = {t1, t2}
    None = None
    SoftLimit = 1
    HardLimit = 2
    SessionLimit = 2
    Batch = 1
    MaxAdds = 4
    MaxSummaries = 3
PROPERTY ActiveNodeStays
CHECK_DEADLOCK FALSE
