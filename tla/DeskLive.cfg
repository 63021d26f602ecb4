SPECIFICATION FairSpec
CONSTANTS
  Contacts = {c1, c2}
  Users = {a1}
  Agents = {a1}
  Tasks = {t1}
  QueueBound = 2
  Faults = {"outage", "crash"}
  None = None
  Undefined = Undefined
PROPERTIES HandOverIsServed HandlersEnd QueueIsServed
