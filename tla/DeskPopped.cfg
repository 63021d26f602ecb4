SPECIFICATION Spec
CONSTANTS
  Contacts = {c1}
  Users = {a1, a2}
  Agents = {a1, a2}
  Tasks = {t1}
  QueueBound = 2
  Faults = {}
  None = None
  Undefined = Undefined
PROPERTIES PoppedChatIsWaiting
