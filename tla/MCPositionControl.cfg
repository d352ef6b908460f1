SPECIFICATION FairSpec
CONSTANTS
  kMaxHedgesPerPosition = 2
  Symbols = {"A"}
  Full = 1
  HedgeEnabled = TRUE
  MaxSends = 2
PROPERTIES PortfolioAgrees TrackedLegRecovers StopLossResumes
