CONSTANTS
    Names = {"p"}
    Commands = {1, 2, 3}
    Processes = {1, 2}
    MaxFailures = 2
    Repositories = {"r", "s"}
    Creates = {1, 2, 3}
    Generations = {1, 2, 3, 4}
    Latest = 2
    Backups = {1, 2, 3, 4}
    Keep = 2
SPECIFICATION FairSpec
INVARIANTS
    ChannelsOfProjectsExist
    OneWatcher
    BranchIsFree
    GenerationsStayApart
    FormerIsKept
    OrderlyExit
PROPERTIES
    ReviewsAreWatched
    RetentionIsSafe
CHECK_DEADLOCK FALSE
