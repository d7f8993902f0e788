SPECIFICATION FairSpec
CONSTANTS
    Units = 2
    Documents = 1
    DocOf <- MCDocOf
    Revisions = 2
    SourceText <- MCSourceText
    t1 = t1
    t2 = t2
    t3 = t3
    loose = loose
    s1 = s1
    s2 = s2
    Valid <- MCValid
    Invalid = {loose}
    Separated <- MCSeparated
    NoText = NoText
    OK = OK
    MaxTasks = 1
    RepairBudget = 1
    Budgets <- MCBudgets
INVARIANTS
    TypeOK
    SelectionIsVerified
    AdoptedYieldsToReview
PROPERTIES
    VerifiedIsReviewed
    AskedOnce
    VerifiedTextStands
    EventuallyVerified
