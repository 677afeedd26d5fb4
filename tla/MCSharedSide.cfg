CONSTANTS
  Writers = {w1}
  Installers = {i1}
  Names <- MCNames
  Texts <- MCTexts
  Torn = "torn"
  Lists <- MCLists
  Missing = Missing
  Nobody = Nobody
  SideSticks = FALSE
SPECIFICATION SharedSpec
INVARIANT PollsSeeWholeSets
