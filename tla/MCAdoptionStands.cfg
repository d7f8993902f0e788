SPECIFICATION Spec
CONSTANTS
    guide = guide
    menu = menu
    t1 = t1
    t2 = t2
    c1 = c1
    c2 = c2
    Doc <- MCDoc
    Text <- MCText
    SourceText <- MCSourceText
    First <- MCFirst
    Content <- MCContent
    Draft <- MCDraft
    NoText = NoText
    Foreign = Foreign
    NoCommit = NoCommit
    Bounds <- MCTwoChoices
INVARIANTS
    AdoptionStands
