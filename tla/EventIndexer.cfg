CONSTANTS
  Processes = {p1, p2}
  Files = 1
  Limit = 2
  Backfill = 1
  Kinds = {"typed", "failed"}
  MaxEvents = 2
  MaxFailures = 1
  MaxCrashes = 1
  PageSize = 1
  None = None
SPECIFICATION Spec
INVARIANT TablesSound
PROPERTY CatchesUp
