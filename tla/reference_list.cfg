SPECIFICATION ReadsSpec
CONSTANTS
    Refs <- FourRows
    Searches = {any, word}
    NoSearch <- any
    Tags <- TwoTags
    Hits <- HitsOf
    TagsOf <- TagsOfRows
    Limit = 2
    Params <- AllParams
    Clocks <- OwnMomentsAndOneShared
    MaxLimit = 3
    Word = 16
    Absent = Absent
    Blank = Blank
    MaxWrites = 2
    any = any
    word = word
    tag = tag
    other = other
INVARIANTS
    TypeOK
    QuietAnswersAreSnapshots
    TornAnswersHaveACause
    WalkMissesNothing
    WalkRepeatsNothing
PROPERTY ImplementsAnswers
