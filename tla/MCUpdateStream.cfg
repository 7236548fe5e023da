CONSTANTS
    MaxMsg = 5
    Batch = 2
    OutCap = 2
SPECIFICATION FairSpec
INVARIANTS
    HonestAnswers
    ErrorOvertaken
    OneLateMessage
    NothingForgotten
PROPERTIES
    Implements
    StreamEnds
    Stops
