CONSTANTS
    Cancellers = {c1, c2}
    Operational = TRUE
    Faults = {"killed", "oserror", "slow", "orphans"}
    RetryLimit = 3
    ServerFaults = {"lost", "refused", "unread", "gone", "stop"}
SPECIFICATION EnginesSpec
CHECK_DEADLOCK FALSE
INVARIANTS
    EvidenceIsSound
    OneConversationPerCheckout
PROPERTIES
    CancelIsObeyed
    EnginesImplementAgent
    EveryRunEnds
