SPECIFICATION Spec
CONSTANTS
    post = post
    get1 = get1
    get2 = get2
    Requests <- ThreeRequests
    Creates = {post}
    Lists <- TwoLists
    Items <- OneItem
    Shows <- Rows
    MaxRetries = 1
    FailureThreshold = 1
SYMMETRY ReadSymmetry
INVARIANTS
    TypeOK
    CreationsToldTrue
    AnswersCurrent
PROPERTIES
    EmptyPageOnlyUnanswered
CHECK_DEADLOCK FALSE
