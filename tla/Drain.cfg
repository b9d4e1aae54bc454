\* No time at all, less than the reserves of the "postgres" step, and enough.
\* The route timeout is shorter than its default to keep the clock small.
CONSTANTS
  Budgets = {0, 4, 9}
  RouteTimeout = 6
  PublishTimeout = 5
  DeleteTimeout = 2
SPECIFICATION DrainSpec
CHECK_DEADLOCK FALSE
INVARIANTS ExitOKMeansStopped ReleaseGivenTail
PROPERTIES ReleaseAfterPostgres TailReserved 
