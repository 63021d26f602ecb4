SPECIFICATION FairSpec
CONSTANTS
  Sockets = {s1, s2}
  MaxAttempts = 3
  Threshold = 2
  SendBound = 2
  ConnectBound = 2
  LogoutBound = 1
  Faults = {"initError", "diskError", "endError", "sendError"}
  None = None
INVARIANTS TypeOK OneConnection ConnectionStateIsTrue NeverStranded OutageIsForgotten
PROPERTIES LinkComesBack BreakerCloses
