\* What must happen in the end: downloads are settled, due tasks run.
SPECIFICATION Spec
CONSTANTS
  Focus = {"tracking", "scheduler"}
PROPERTIES  FailedIsResearched DueTaskRuns
CHECK_DEADLOCK FALSE
