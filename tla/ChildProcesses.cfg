SPECIFICATION ChildSpec
CONSTANTS
  Transfers = 2
  Descendants = {d1}
  Streams = {1}
  Adopted = Adopted
  MaxOutput = 1
  OutputSlots = 1
  MaxInputs = 0
  Faults = {"bind", "release", "kill", "read"}
CHECK_DEADLOCK FALSE
INVARIANTS GroupContained ResultFaithful
PROPERTIES ImplementsGroup
