\* Three start intents; the last clock widget is removed under a session.
CONSTANTS
  MaxStarts = 3
SPECIFICATION Spec
PROPERTIES
  KeepsActiveSession
CHECK_DEADLOCK FALSE
