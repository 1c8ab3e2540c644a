SPECIFICATION Spec
CONSTANTS
    Streams = {1}
    Kinds = {"chat"}
    RstLimit = 1
PROPERTIES CallsAnswered
