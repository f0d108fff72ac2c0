SPECIFICATION ChildSpec
CONSTANTS
  Transfers = 1
  Descendants = {}
  Streams = {1}
  Adopted = Adopted
  MaxOutput = 2
  OutputSlots = 1
  MaxInputs = 1
  Faults = {"wait"}
CHECK_DEADLOCK FALSE
INVARIANTS NoUseAfterClose
PROPERTIES SetEnds
