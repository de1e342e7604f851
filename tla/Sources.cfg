SPECIFICATION Spec
CONSTANTS
  Kinds <- MCKinds
  MaxVersion = 4
  Unparsable = {2}
  Holds <- MCHolds
  EventBound = 3
PROPERTIES
  Obtained
  NeverBackwards
CHECK_DEADLOCK FALSE
