\* An owner and another client; the object's thread is created twice.
SPECIFICATION FairThreadSpec
CONSTANTS
  Clients = {owner, other}
  Owner = owner
  MaxRuns = 2
  Running = running
  Ok = ok
INVARIANTS ObjectOutlivesThread WaitMeansExited
PROPERTY StopsWhenAsked
CHECK_DEADLOCK FALSE
