SPECIFICATION Spec
CONSTANTS
    Puuid = {"p1", "p2"}
    Queue = {"solo", "flex"}
    Key <- OneKeyEach
    Reach = 2
    MaxRuns = 2
    MaxIncidents = 1
INVARIANT EveryRunSeeded
