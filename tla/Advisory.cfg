SPECIFICATION FairSpec
CONSTANTS
  Events <- MCEvents
  Heartbeat = TRUE
  SnapshotSize = 1
  MaxRecords = 2
  MaxAsks = 2
  MaxCrashes = 1
INVARIANTS
  RunningIsRun
  CompletedHasReview
  OneHeartbeatBacklog
  EvidenceCovered
PROPERTIES
  JobsRunOnce
  QueueDrains
CHECK_DEADLOCK FALSE
