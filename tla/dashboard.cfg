SPECIFICATION FairSpec
CONSTANTS
    Refs <- FourAndTwo
    DemoRefs <- Demo
    Saved <- ThreeAndOne
    Searches <- OneWord
    NoSearch <- any
    Tags <- OneTag
    Hits <- HitsOf
    TagsOf <- TagsOfRefs
    Limit = 2
    Tasks <- TwoTasks
    Landings <- AllLandings
    MaxMoves = 3
    Nil = Nil
    Absent = Absent
    any = any
    word = word
    tag = tag
    t1 = t1
    t2 = t2
CHECK_DEADLOCK FALSE
INVARIANTS
    TypeOK
    BusyMeansUnderWay
    ListFollowsUrl
    EmptinessHasACause
PROPERTIES
    SearchIsApplied
    LoadingEnds
