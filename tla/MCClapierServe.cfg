SPECIFICATION MCSpec
CONSTANTS
    Requests = {q, p}
    Asks <- MCAsks
    MaxChanges = 2
    Instances = {old, new}
    Lines <- MCLines
    ATTEMPTS = 2
CHECK_DEADLOCK FALSE
INVARIANTS
    AnswersTheTree
    DeafOnlyIfHaunted
PROPERTY ComesToRest
