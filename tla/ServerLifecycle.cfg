\* One life of the process, with two requests, a signal at any time, and failures.
SPECIFICATION ProcessSpec
CONSTANTS
    Plugins <- PluginOrder
    Databases <- AllDatabases
    WorkerBound <- OfWorker
    Consumers <- ConsumerOrder
    Metrics = "metrics"
    HttpRequests = {"r1", "r2"}
INVARIANTS
    HandlersHaveWhatTheyUse
PROPERTIES
    ServerStops
\* The process ends.
CHECK_DEADLOCK FALSE
