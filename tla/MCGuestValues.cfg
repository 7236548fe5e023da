CONSTANTS
    W32 = 6
    W64 = 9
    MaxFloat = 3
    MaxText = 20
    AuthorId = 1
    Label = 2
    TimeStamp = 3
    Numbers <- MCNumbers
    Vectors <- MCVectors
    SomeTexts <- MCSomeTexts
    Frames <- MCFrames
    Lookups <- MCLookups
    Specs <- MCSpecs
    Logged <- MCLogged
    Arguments <- MCArguments
    Choices <- MCChoices
    Nodes <- MCNodes
    Neighbors <- MCNeighbors
SPECIFICATION Spec
CHECK_DEADLOCK FALSE
INVARIANTS
    TextRoundTrip
    TextIsRead
    KeyIsFound
    SpecIsGrammar
    LogShowsNumber
    ExampleRows
