SPECIFICATION Spec
CONSTANTS
  p1 = p1
  p2 = p2
  annAt = annAt
  AnnAt = AnnAt
  bobAt = bobAt
  ann = ann
  Ann = Ann
  song = song
  Symbol = Symbol
  Item = Item
  None = None
  People = {p1, p2}
  Names = {annAt, AnnAt, bobAt, ann, Ann}
  Addresses = {annAt, AnnAt, bobAt}
  Lower <- LowerCase
  Registrations <- Requests
  Titles <- SomeTitles
  Words = {song, Item}
  MaxSlug = 2
  MaxRows = 3
  Limits = {0, 1}
  Order <- TitleOrder
INVARIANT OwnerIsFound
INVARIANT FreeUnlessOvertaken
INVARIANT SlugsWithoutGaps
INVARIANT ReaderSeesAll
SYMMETRY Symmetry
CHECK_DEADLOCK FALSE
