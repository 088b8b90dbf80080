SPECIFICATION FairJobsSpec
CONSTANTS
    MaxStarts = 1
    MaxRequests = 3
    Device = {d1}
PROPERTY
    StopClosesDevices
CHECK_DEADLOCK FALSE
