\* A batch, asked for by the first machine, and a single launch compete for two
\* tasks and for the one slot of each machine, while the roadmap is edited and
\* heartbeats come early or late.
CONSTANTS
    b1 = b1
    u1 = u1
    Batches = {b1}
    Units = {u1}
    Roadmaps = {1}
    Tasks = {1, 2}
    Machines = {1, 2}
    Linked <- AllLinked
    Caller <- CallsFromFirst
    NoMachine = none
    MaxLaunches = 1
    MaxItems = 2
    MaxVersion = 1
    MaxBeats = 1
SPECIFICATION Spec
INVARIANTS TypeOK SomebodyGoesOn
PROPERTIES NoOverbookingUnlessStale BatchOfIdleTasks
CHECK_DEADLOCK FALSE
