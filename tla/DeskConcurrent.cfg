SPECIFICATION RaceSpec
CONSTANTS
  Contacts = {c1}
  Users = {a1, a2}
  Agents = {a1, a2}
  Tasks = {t1, t2}
  QueueBound = 2
  Faults = {"lapse"}
  None = None
  Undefined = Undefined
SYMMETRY Symmetry
INVARIANTS TypeOK HeldOnlyWhenWithAgents WaitingIsQueued ActiveIsAttended SilentAgentIsTimed
PROPERTIES KeepsDuty FollowsLifecycle
