SPECIFICATION Spec
CONSTANTS
  Contacts = {c1}
  Instances = {i1, i2}
  Slots = {s1, s2}
  None = None
  Faults = {}
PROPERTIES IgnoredOnlyForAnotherInstance
