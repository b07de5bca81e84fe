SPECIFICATION Spec
CONSTANTS
    Clients = {1, 2}
    connection_queue_capacity = 1
    connection_workers = 2
    command_capacity = 1
    maximum_commands_per_tick = 1
    completion_event_capacity = 1
    MaximumOutput = 2
    RefusedCancellations = {FALSE}
    NONE = NONE
INVARIANTS
    OwnersMatchWork
    FinishedTellsAll
    CancellationsAreNotLost
