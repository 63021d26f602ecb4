SPECIFICATION FairSpec
CONSTANTS
  Contacts = {c1}
  Instances = {i1, i2}
  Slots = {s1, s2}
  None = None
  Faults = {"redisError", "crash"}
INVARIANTS TypeOK OneChatPerContact OneAtATime
PROPERTIES ImplementsDuty LockFreed
