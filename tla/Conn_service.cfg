SPECIFICATION MCSpec
CONSTANTS
    Requests = {r1, r2, r3}
    Posts = {r1}
    None = none
    StaleAfter = 1
    MaxTime = 3
    CR = cr
    LF = lf
    Field = field
    BodyBytes = {lf, x}
    MaxFields = 1
    MaxBody = 3
INVARIANTS
    OwnAnswer
    AnswerWhole
PROPERTIES
    Answered
    ReadingEnds
    ImplementsService
