CONSTANTS
  Helpers = {h1, h2}
  Gaps = {1}
  Epoch = 20
  TotalAnalysisTime = 6
  SilentInitial = 4
  SilentAfterIntro = 2
  SilentMaxSession = 2
  NoiseMaxIntro = 4
  NoiseMinLength = 1
  NoiseInterSilence = 2
  NoiseMaxCount = 2
  WaitForAnswer = TRUE
  None = None
SPECIFICATION FairSpec
INVARIANTS
  TypeOK
  AnalysisIsBounded
  ResultIsJustified
PROPERTIES
  WaitReturns
CHECK_DEADLOCK FALSE
