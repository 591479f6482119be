SPECIFICATION FairSpec
CONSTANTS
    Dashboards <- ThreeDashboards
    Plain <- plain
    Demo <- demo
    Nil = Nil
    MaxEntries = 2
    Volumes <- EmptyAndOld
    Dsns <- OnlyWellFormed
    MaxChanges = 4
    plain = plain
    demo = demo
    d1 = d1
CHECK_DEADLOCK FALSE
INVARIANTS
    ShellTypeOK
    ReadyMeansUsable
    WantedIsKept
    StaleSchemaHasACause
PROPERTIES
    GuestReturns
    RedirectsFit
    ScreensSettle
    GoodStartsSucceed
