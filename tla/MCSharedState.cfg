\* Two resumes of one state write to the same array.
CONSTANTS
    Value = value
    Resumes = {r1, r2}
    Experiments = {tcp, tls, quic}
    Results = {pass, timeout}
    Capacities = {1, 4}
    Unused = Unused
SPECIFICATION Spec
PROPERTY RecordedStays
CHECK_DEADLOCK FALSE
