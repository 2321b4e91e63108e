\* Two workers, one outside thread, two stages.
SPECIFICATION Spec
CONSTANTS
  Worker = {w1, w2}
  Outside = {net}
  Owner = owner
  NumStages = 2
  Calls <- DirectCalls
  MaxEvent = 2
  MaxHops = 1
CHECK_DEADLOCK FALSE
INVARIANTS TypeOK RefCounts QueueCovered OwnEventsDone SomebodyAwake
PROPERTIES EventsHandled CleanupEnds
