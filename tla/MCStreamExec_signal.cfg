CONSTANTS
    e1 = e1
    e2 = e2
    NoExec = NoExec
    Execs = {e1, e2}
    Ids = {1, 2}
    SpawnFails = FALSE
    StdinCap = 1
    MaxOutput <- SomeOutput
    MaxStdin <- SomeInput
SPECIFICATION RunningSpec
PROPERTIES SignalStops
CHECK_DEADLOCK FALSE
