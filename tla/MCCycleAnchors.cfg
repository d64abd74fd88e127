SPECIFICATION Spec
CONSTANTS
    Puuid = {"p1", "p2"}
    Queue = {"solo", "flex"}
    Key <- TwoQueues
    Reach = 2
    MaxRuns = 3
    MaxIncidents = 3
INVARIANTS
    TypeOK
    AnchorCovers
    Covered
