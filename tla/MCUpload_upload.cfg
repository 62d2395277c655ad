SPECIFICATION Spec
CONSTANTS
  t1 = t1
  t2 = t2
  c1 = c1
  c2 = c2
  c3 = c3
  h1 = h1
  h2 = h2
  f1 = f1
  f2 = f2
  f3 = f3
  mp3 = mp3
  wav = wav
  None = None
  Tabs = {t1, t2}
  UrlCalls = {c1, c2, c3}
  CompleteCalls = {h1, h2}
  Audio = {f1, f2, f3}
  Keys = {mp3, wav}
  KeyOf <- Extension
  Size <- Bytes
  MaxSize = 2
INVARIANT ConfirmedAudioIsStored
INVARIANT SoleUploadIsDescribed
INVARIANT WaitingCanComplete
PROPERTY GoesBackOnlyByRace
SYMMETRY Symmetry
CHECK_DEADLOCK FALSE
