SPECIFICATION FairSpec
CONSTANTS
  Timers = {m1, m2}
  Faults = {"outage", "readError", "writeError", "dbError", "crash"}
  None = None
INVARIANTS TypeOK DebtsNeedConsent AnswersFollowQuestions SessionIsWatched
PROPERTIES SessionExpires
