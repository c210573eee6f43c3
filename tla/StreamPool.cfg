\* two topics, two workers, both caps within reach
SPECIFICATION LiveSpec
CONSTANTS
    None = None
    NumTopics = 2
    NumWorkers = 2
    MaxStreams = 3
    MaxPerWorker = 1
    TriggerTopics = {1}
    MaxEdits = 1
    Contingencies = {"crash", "end", "scan", "db", "remote"}
INVARIANTS
    TypeOK
    PoolPartition
PROPERTIES
    StreamsAreServed
    PoolIndexFollows
