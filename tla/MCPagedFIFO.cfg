SPECIFICATION FairSpec
CONSTANTS
  Depth = 4
  RecordSize = 2
  Ids = {a, b}
  Blank = Blank
INVARIANTS
  LevelsConservative
  CommittedPagesWhole
  PagesDisjoint
PROPERTIES
  NeverSharedAgain
  ImplementsPageQueue
  FullClears
  CommittedIsShown
