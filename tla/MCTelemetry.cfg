CONSTANTS
    r1 = r1
    r2 = r2
    r3 = r3
    Requests <- MCRequests
    Failed <- MCFailed
    Duration <- MCDuration
    RateWindow = 3
    DurationWindow = 1
    ErrorWindow = 2
    MaxSeconds = 3
SPECIFICATION Spec
\* The telemetry is destroyed, or the bound on the seconds is reached.
CHECK_DEADLOCK FALSE
INVARIANTS TypeOK SecondsAddUp
