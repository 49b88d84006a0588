SPECIFICATION FairOutboxSpec
CONSTANTS
    t1 = t1
    t2 = t2
    watch = watch
    serve = serve
    Tasks = {t1, t2}
    Flushers = {watch, serve}
    Settings <- MCSettings
INVARIANTS
    CardIsTrue
    AlertNotLost
PROPERTIES
    NewsArrives
