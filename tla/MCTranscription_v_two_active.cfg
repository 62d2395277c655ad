SPECIFICATION Spec
CONSTANTS
  j1 = j1
  j2 = j2
  v1 = v1
  v2 = v2
  p1 = p1
  p2 = p2
  w1 = w1
  w2 = w2
  w3 = w3
  NoRun = NoRun
  NoWorker = NoWorker
  Jobs = {j1, j2}
  Versions = {v1}
  VersionOf <- TwoJobsOneVersion
  Partitions = {p1, p2}
  PartitionOf <- TwoPartitions
  PipelineCheckpoints <- ShortPipeline
  MockCheckpoints <- MockProgress
  Workers = {w1, w2}
  MockWorkers = {}
  FailingMocks = {}
  SeparateVocals = {}
  MaxReviews = 1
  MaxFaults <- ApiFaults
INVARIANT OneActiveJob
CHECK_DEADLOCK FALSE
