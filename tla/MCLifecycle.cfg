CONSTANTS
    stop = stop
    info = info
    call1 = call1
    StopRequest = {stop}
    InfoRequest = {}
    ChainRequest = {call1}
    MaxLoop = 1

SPECIFICATION LifecycleSpec
INVARIANTS
    NothingUsedAfterDestruction
    StatementsUsedOnce
    DatabaseGuarded
    PublishedIsCommitted
PROPERTIES
    StopWorks
    CallsAnswered
