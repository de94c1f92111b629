SPECIFICATION SchemaSpec
CONSTANTS
    Streams = {"minute"}
    Processes = {"daemon", "command"}
    Origins = {"1"}
    MaxNow = 1
PROPERTIES ForwardOnly
