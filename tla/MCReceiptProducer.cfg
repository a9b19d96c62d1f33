\* The first two of three subjects do not answer, and a probe takes up to 30 seconds.
SPECIFICATION MCSpec
CONSTANTS
    max_entries = 3
    base_backoff = 1
    max_backoff = 4
    resubmit = 2
    max_transport_attempts = 2
    FailuresMax = 3
    Context = {"r1", "r2"}
    subjects <- Three
    Reachable = {3}
    max_probe = 1
    hardened = TRUE
    Faults = {"launch", "refused", "restart", "lost", "reorg"}
    MaxChanges = 2
    MaxFaults = 2
INVARIANTS
    TypeOK
    OneAttempt
PROPERTIES
    RetriesAreFair
