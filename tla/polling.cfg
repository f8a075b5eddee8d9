SPECIFICATION FairSpec
CONSTANTS
    None = None
    App = App
    Runs <- MCRuns
    MaxErrors = 1
INVARIANTS
    StoppedPageIsCurrent
    StartIsFollowed
PROPERTIES
    PageComesToRest
CHECK_DEADLOCK FALSE
