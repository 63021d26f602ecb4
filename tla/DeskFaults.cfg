SPECIFICATION Spec
CONSTANTS
  Contacts = {c1}
  Users = {a1, a2, d1}
  Agents = {a1, a2}
  Tasks = {t1}
  QueueBound = 3
  Faults = {"crash", "error", "outage", "removal", "lapse", "stranger"}
  None = None
  Undefined = Undefined
SYMMETRY Symmetry
INVARIANTS WaitingIsQueued ActiveIsAttended SilentAgentIsTimed
PROPERTIES FollowsLifecycle
