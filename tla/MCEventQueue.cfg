CONSTANTS
    Events = {motor, step, data}
    MaxTime = 4
    MaxStep = 2
    CallbackOps = 2
SPECIFICATION QueueSpec
INVARIANTS WellLinked
PROPERTIES ImplementsTimers PassEnds
