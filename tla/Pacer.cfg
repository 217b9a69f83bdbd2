SPECIFICATION PacerFairSpec
CONSTANTS
  get = get
  put = put
  login = login
  Fetches = {get, put, login}
  Idempotent = {get, login}
  Retries = 1
  RateLimitRetries <- MCRateLimitRetries
  MinInterval = 2
  MaxDelay = 3
  Punctual = TRUE
PROPERTIES
  Spaced
  WriteNotRepeated
  EveryRequestEnds
CHECK_DEADLOCK FALSE
