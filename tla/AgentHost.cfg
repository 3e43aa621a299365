CONSTANTS
    Runs = {r1, r2}
    MaxEvents = 1
    Contents <- SomeContents
    Policies <- SomePolicies
    Traces = {t1}
    NoTrace = NoTrace
    Contexts <- SomeContexts
    CallIDs = {c1, c2}
    NoRun = NoRun
    Kinds = {"agent", "tool"}
    QueueSize = 1
    Configs <- SomeConfigs
SPECIFICATION HostSpec
SYMMETRY HostSymmetry
INVARIANTS NothingTwice SpanLinked LeakHasCause GracefulLosesNothing
PROPERTIES ImplementsDelivery
CHECK_DEADLOCK FALSE
