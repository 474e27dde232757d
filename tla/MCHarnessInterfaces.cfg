\* The interface of a route, as two readers see it.
SPECIFICATION HarnessSpec
PROPERTIES
  InterfacesAgree
CHECK_DEADLOCK FALSE
