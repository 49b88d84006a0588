SPECIFICATION FairSpec
CONSTANTS
    worker = worker
    sync = sync
    Procs = {worker, sync}
    Settings <- MCSettings
INVARIANTS
    CompletionIsOrderly
    DeliveryIsExact
PROPERTIES
    DeliverySettles
