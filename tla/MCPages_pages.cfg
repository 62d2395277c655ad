SPECIFICATION Spec
CONSTANTS
  ann = ann
  ben = ben
  None = None
  Sent = Sent
  Unknown = Unknown
  Tabs = {ann, ben}
  Reviewers = {ann, ben}
  LastJob = 2
  MaxEvents = 2
  MaxChanges = 2
  Transcripts <- SomeTranscripts
  Largest = 3
  MaxSeeks = 2
  Desks <- OpenTogether
INVARIANT QueueNamesItsJob
INVARIANT RowNamesLastDecision
INVARIANT OneDecisionPerCompletion
INVARIANT OwnChangeIsShown
PROPERTY JobPageShowsEnd
PROPERTY PlayingStops
CHECK_DEADLOCK FALSE
