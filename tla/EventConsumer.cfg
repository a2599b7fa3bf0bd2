SPECIFICATION PublicationSpec
CONSTANTS
    Aggregates = {a1}
    Workers = {w1, w2}
    BatchSize = 2
    MaxEvents = 2
    MaxFaults = 2
    NoWorker = NoWorker
    Consumers = {c1, c2}
    MaxForeign = 1
INVARIANTS
    PublishedReachedTheBroker
    OneHandlerPerRow
    NothingIsSkipped
PROPERTIES
    ImplementsExactlyOnce
    EveryEventIsApplied
CHECK_DEADLOCK FALSE
