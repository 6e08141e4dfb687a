CONSTANTS
    e1 = e1
    e2 = e2
    NoExec = NoExec
    Execs = {e1, e2}
    Ids = {1, 2}
    SpawnFails = TRUE
    StdinCap = 1
    MaxOutput <- SomeOutput
    MaxStdin <- SomeInput
SPECIFICATION RunningSpec
INVARIANTS StreamsInOrder DoneIsFinal KilledForCause AbandonedOnlyIfReplaced
PROPERTIES ExitReported ClientReturns
CHECK_DEADLOCK FALSE
