\* an undisturbed process and one new trigger
SPECIFICATION LiveSpec
CONSTANTS
    None = None
    NumTopics = 1
    NumWorkers = 1
    MaxStreams = 3
    MaxPerWorker = 3
    TriggerTopics = {1}
    MaxEdits = 1
    Contingencies = {}
PROPERTIES
    ProcessorIndexFollows
