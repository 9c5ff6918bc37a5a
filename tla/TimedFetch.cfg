SPECIFICATION Spec
CONSTANTS
  NPages = 1
  MaxRetries = 1
  Kinds = {"good", "garbled", "limited", "server", "client"}
  BodySizes = {1, 3}
  BodyLimit = 2
  RetryAfters = {0, 1, 2, 3}
  MaxInterim = 1
  ConnectTimeout = 1
  RequestTimeout = 2
  ProgressInterval = 1
  BaseBackoff = 2
  MaxBackoff = 2
  MaxRetryAfter = 2
  MaxCalls = 1
INVARIANT NoStaleOption
INVARIANT WholeOrNothing
INVARIANT RetryAfterHonoured
INVARIANT ActivationBounded
INVARIANT CancelLatency
