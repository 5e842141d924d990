CONSTANTS
    stop = stop
    info = info
    call1 = call1
    StopRequest = {stop}
    InfoRequest = {info}
    ChainRequest = {}
    MaxLoop = 1

SPECIFICATION LifecycleSpec
PROPERTIES
    StopWorks
