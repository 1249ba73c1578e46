\* Small numbers in the place of 64 and 1024 (block sizes), 128 (line buffer),
\* chosen so that messages and lines fall short of them, reach and pass them.
CONSTANTS
    Interfaces <- BothInterfaces
    Sends = 10
    Descriptors = 2
    MaxParts = 3
    LineSize = 3
    MaxOutput = 5
    MaxRbuf = 7
    IntSize = 2
    ButtonSize = 11
    UrlSize = 7
    MaxFields = 3
    MaxText = 2
    UrlLen = 2
    SizeMax = 9
    MaxPieces = 2
    MaxWrites = 2
SPECIFICATION SpecCalls
INVARIANTS
    OneSocket SuccessMeansSent
    ErrorPathsRelease PrintsWholeAnswer
    CapturesOutput
    FormatsLayout
    FirstLineFound AnswerIsSound
    LoopReady
PROPERTY ShortOutputEnds
\* Every call comes to an end.
CHECK_DEADLOCK FALSE
