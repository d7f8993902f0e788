SPECIFICATION Spec
CONSTANTS
    s1 = s1
    s2 = s2
    c1 = c1
    c2 = c2
    own = own
    Source <- MCSource
    Content <- MCContent
    Translation <- MCTranslation
    NoText = NoText
    NoHash = NoHash
    Vanished = Vanished
    MaxMoves = 1
    MaxEdits = 2
    MaxFaults = 1
    MaxChoices = 2
    EditsDuringRename = FALSE
INVARIANTS
    TypeOK
    AtMostOneLiveEffect
    MaterializedIsTrue
PROPERTIES
    HumanTextIsKept
    DiscardOnlyWhatWasSeen
    FileSpec
SYMMETRY Alike
