SPECIFICATION Spec
CONSTANTS
  r1 = r1
  r2 = r2
  r3 = r3
  a = a
  Blank = Blank
  Missing = Missing
  Text = Text
  EmptyText = EmptyText
  Zero = Zero
  None = None
  Letters = {a}
  MaxBytes = 2
  MaxSeconds = 2
  Runs = {r1, r2, r3}
  Recordings <- Uploads
INVARIANT AloneMeansWhole
INVARIANT AloneFailsForItsAudio
INVARIANT BuiltWithinLimits
INVARIANT TranscriptAddsUp
INVARIANT NothingLeftBehind
SYMMETRY Symmetry
CHECK_DEADLOCK FALSE
