SPECIFICATION Spec
CONSTANTS
  Actives = {25}
PROPERTIES
  NoNeverHastens
CHECK_DEADLOCK FALSE
