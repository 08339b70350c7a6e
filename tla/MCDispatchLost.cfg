SPECIFICATION Spec
CONSTANTS
    c1 = c1
    c2 = c2
    Cores = {c1, c2}
    ANY = ANY
    JobPool = 1
    MaxJobs = 1
    Machines <- JustSubmitting
INVARIANT
    NoLostJob
CHECK_DEADLOCK FALSE
