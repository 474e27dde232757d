\* One agent, two calls with fresh command IDs and explicit cancels, two
\* incarnations of the stream, one place in the send queue, under fairness.
CONSTANTS
  Agents = {a1}
  Streams = {"s1", "s2"}
  Calls = {"c1", "c2"}
  CommandIDs = {"c1", "c2"}
  CmdOf <- FreshIDs
  CancelCalls = {"c1"}
  SendCap = 1
  None = None
SPECIFICATION LiveSpec
PROPERTIES
  KeepsContract
  CallsReturn
  StreamsRetire
CHECK_DEADLOCK FALSE
