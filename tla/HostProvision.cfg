\* A channel of three for two steps of the handler and up to four lines.
SPECIFICATION Spec
CONSTANTS
    Capacity = 3
    MaxOwn = 2
    MaxLines = 4
CHECK_DEADLOCK FALSE
PROPERTY
    AnswersInTheEnd
