SPECIFICATION FairSpec
CONSTANTS
  Requests = {q1, q2}
  Ratings = {"EXCELENTE", "MALA"}
  SurveyBound = 2
  PictureBound = 1
  LastDay = 1
  TrendDays = 2
  Faults = {"error", "crash"}
  None = None
INVARIANTS TypeOK StaleOnlyIfMissed AverageInRange TrendIsComplete
PROPERTIES CacheSettles
