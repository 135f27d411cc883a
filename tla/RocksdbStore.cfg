SPECIFICATION DbSpec
CONSTANTS
    Sessions = {s1, s2}
    Ids = {a, b}
    Names = {n}
    Tags = {t, u}
    Dues = {1}
    Ttl = 0
    MaxTime = 2
    MaxCount = 2
    MaxLate = 0
    MaxCalls = 2
    MaxOpen = 1
    Avoided = {"updateUnique", "updateTtl", "deleteNull", "deleteTaken", "rollbackDelete", "deleteTopicInTx", "partialMerge"}
    Null = Null
    NoId = NoId
    Absent = Absent
SYMMETRY Symmetry
INVARIANTS
    FindIsExact
    DuplicateIfTaken
    TopicIsListed
