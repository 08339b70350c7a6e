SPECIFICATION ExecSpec
CONSTANTS
    MaxResident = 4
    Priorities = {1, 5, 10}
    Queues = {q1, q2}
    Park = Park
    None = None
    DriverWakes = FALSE
INVARIANT
    ExecInv
CHECK_DEADLOCK FALSE
