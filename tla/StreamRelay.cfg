SPECIFICATION Spec
CONSTANTS
  Tokens = {0, 1}
  MaxLines = 4
INVARIANTS TypeOK IntactStreamsAreAccounted
PROPERTIES ImplementsEventStream StreamsAreSettled
CHECK_DEADLOCK FALSE
