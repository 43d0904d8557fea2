\* Delays 1, 2, 3: doubling is cut off at the third one.
CONSTANTS
  Request = {r1, r2, r3}
  RetryDelay = 1
  MaxBackoff = 3
  NoId = NoId
SPECIFICATION Spec
INVARIANTS AnswersMatch RequestsSound OneDialer
PROPERTIES StoppedStaysQuiet ServesRequests
CHECK_DEADLOCK FALSE
