SPECIFICATION Spec
CONSTANTS
    FailureThreshold = 2
    RecoveryThreshold = 1
    Names <- MCNames
    Threads = {t1, t2}
    Reported = {"windivert"}
    Kinds = {"L3Capture"}
    Wanted <- Capability
    Word = 3
    None = None
    Spellings <- MCSpellings
    Trimmed <- MCTrimmed
    MaxCandidates = 2
    Priorities = {1, 2}
    CandidateCaps = {"Filtering"}
    Blank = 0
    NoCandidate = NoCandidate
SYMMETRY ThreadSymmetry
INVARIANTS SelectorsInv NoSteadyBackendMissed LoadIsExact FailoverInv
