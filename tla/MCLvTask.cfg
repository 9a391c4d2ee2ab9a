CONSTANTS
    Tasks <- MCTasks
    Prio <- MCPrio
SPECIFICATION HSpec
INVARIANT SchedulerSound
PROPERTIES
    TurnsFair
    NoneForgotten
    HandlerEnds
