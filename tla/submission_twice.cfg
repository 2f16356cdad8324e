CONSTANTS
    Actions = {"deposit"}
    Flow = {"deposit"}
    Payloads = {"p"}
    Window = 1
    Margin = 1
    Lag = 1
    Attempts = 2
    MaxTx = 2
    MaxTime = 3
SPECIFICATION Spec
INVARIANTS UnknownKeepsBlocked
CHECK_DEADLOCK FALSE
