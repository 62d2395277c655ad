SPECIFICATION Spec
CONSTANTS
  j1 = j1
  j2 = j2
  v1 = v1
  v2 = v2
  p1 = p1
  p2 = p2
  w1 = w1
  w2 = w2
  w3 = w3
  NoRun = NoRun
  NoWorker = NoWorker
  Jobs = {j1, j2}
  Versions = {v1, v2}
  VersionOf <- TwoVersions
  Partitions = {p1}
  PartitionOf <- SharedPartition
  PipelineCheckpoints <- EmptyPipeline
  MockCheckpoints <- ShortPipeline
  Workers = {w1, w2, w3}
  MockWorkers = {w2, w3}
  FailingMocks = {w3}
  SeparateVocals = {j2}
  MaxReviews = 1
  MaxFaults <- ApiFaults
INVARIANT EventsHaveJobs
INVARIANT OutcomeRecorded
INVARIANT VersionFollowsJob
INVARIANT EachFaultLosesOneOutcome
INVARIANT ApprovedHasTranscript
PROPERTY DecisionStands
CHECK_DEADLOCK FALSE
