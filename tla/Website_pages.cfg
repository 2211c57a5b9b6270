\* Three texts on the page and all pairs of up to four bytes in block mode, two
\* lists of up to four rows in pages of two, or statistics with two recent jobs.
SPECIFICATION SiteSpec
CONSTANTS
  Texts <- MCTexts
  Inputs <- MCInputs
  SampleOld <- MCOld
  SampleNew <- MCNew
  Sizes = {1, 2}
  MaxDemo = 4
  MaxActs = 2
  PageSize = 2
  RecentLimit = 2
  MaxRows = 4
  MaxClicks = 4
  ModAdler = 3
  Floor = 1
  Cap = 3
  Spread = 3
INVARIANTS
  NeverMismatch
  RollingIsDirect
  ShownIsCurrent
  NoRowIsSkipped
CHECK_DEADLOCK FALSE
