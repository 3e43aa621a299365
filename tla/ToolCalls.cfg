CONSTANTS
    NItems = 2
    MaxImages = 2
    c1 = c1
    c2 = c2
    Callers <- MCCallers
    MaxSkillCalls = 3
    dog = dog
    cat = cat
    blank = blank
    Users <- MCCallers
    Documents <- MCDocuments
    Lists <- MCLists
    Blank = {blank}
    FileKey <- MCFileKey
    Queries <- MCQueries
    Requested = {0, 1}
    DefaultTopK = 2
    MaxUses = 2
    MaxTicks = 1
    MaxChunks = 2
    MaxEdits = 2
    MaxTime = 1
    MaxToolCalls = 1
    Offered <- MCOffered
SPECIFICATION ToolCallsSpec
INVARIANTS AllAccounted ClosedAfterSends SandboxHasCause KnowledgeKept SearchComplete
           ResourceAnswers
PROPERTIES CallsEnd SkillCallsEnd
CHECK_DEADLOCK FALSE
