SPECIFICATION Spec
CONSTANTS
  Timers = {m1, m2}
  Faults = {}
  None = None
PROPERTIES CommentsAreRecorded
