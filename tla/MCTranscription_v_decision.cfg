SPECIFICATION Spec
CONSTANTS
  j1 = j1
  j2 = j2
  v1 = v1
  v2 = v2
  p1 = p1
  p2 = p2
  w1 = w1
  w2 = w2
  w3 = w3
  NoRun = NoRun
  NoWorker = NoWorker
  Jobs = {j1}
  Versions = {v1}
  VersionOf <- OneJob
  Partitions = {p1}
  PartitionOf <- OnePartition
  PipelineCheckpoints <- ShortPipeline
  MockCheckpoints <- MockProgress
  Workers = {w1}
  MockWorkers = {}
  FailingMocks = {}
  SeparateVocals = {}
  MaxReviews = 1
  MaxFaults <- CrashOnly
PROPERTY DecisionsAreFinal
CHECK_DEADLOCK FALSE
