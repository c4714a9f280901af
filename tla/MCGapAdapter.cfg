SPECIFICATION Spec
CONSTANT MaxRequests = 3
INVARIANT TimerWatchesChange
INVARIANT ChangeIsWatched
INVARIANT EventTellsState
PROPERTY ImplementsService
PROPERTY ChangeEnds
