SPECIFICATION FairSpec
CONSTANTS
    Key = {"long", "short", "exact"}
    Worker = {w1, w2}
    LastPage = 2
    FullPages <- MCFullPages
    Rest <- MCRest
    MaxErrors = 1
    Poison = Poison
    Done = Done
    Failure = Failure
    Idle = Idle
    Exited = Exited
INVARIANTS
    TypeOK
    CrawlIsComplete
    PagesInOrder
    JobsCounted
PROPERTY
    CrawlEnds
